---- MODULE Spec2Model ----
(***************************************************************************)
(* Bank module of the cosmos-sdk fork: the send keeper with the            *)
(* per-denomination "deflationary" split (burn / liquidity pool / fee-tax  *)
(* pool), its parameters and its genesis import.                           *)
(*                                                                         *)
(* The keeper's functions are written as operators over a context record   *)
(* (the stores of one sdk.Context); every operator returns the context it  *)
(* leaves behind together with the error it returns.  A Go panic is an     *)
(* error value of the set Panics: it unwinds through every caller with     *)
(* the writes made so far still in the context.                            *)
(***************************************************************************)
EXTENDS Integers, Sequences, FiniteSets, TLC

VARIABLES
    balances,       \* balance store: <<address, denom>> -> amount (key present)
    supply,         \* supply store: denom -> amount (key present)
    liquidityPool,  \* liquidity pool store: denom -> amount (key present)
    feeTaxPool,     \* fee-tax pool store: denom -> amount (key present)
    accounts,       \* addresses the account keeper has an account for
    params,         \* bank Params held by the parameter subspace
    lockedCoins,    \* address -> Coins the vesting schedule keeps locked
    macc,           \* the bank module account: "none", "noburner", "burner"
    phase,          \* "boot" (before InitGenesis), "run", "halted" (after a panic)
    ops,            \* number of keeper calls made since genesis
    last,           \* the last operation: arguments, result, stores before it
    SupportEGFProposalBlock,  \* gov types: the package-level activation height
    egfSetBy        \* history: the height each application instance set last

vars == <<balances, supply, liquidityPool, feeTaxPool, accounts, params,
          lockedCoins, macc, phase, ops, last, SupportEGFProposalBlock, egfSetBy>>

(***************************************************************************)
(* Bounds and program constants                                            *)
(***************************************************************************)
MaxOps == 2

\* sdk.NewDecWithPrec(n, 2): percentages are held in hundredths
Precision == 100

ModuleName == "bank"
fooDenom == "foo"
barDenom == "bar"

\* denominations in the byte order sdk.Coins uses
DenomSeq == <<barDenom, fooDenom>>
Denoms == {DenomSeq[i] : i \in 1..Len(DenomSeq)}
DenomRank(d) == CHOOSE i \in 1..Len(DenomSeq) : DenomSeq[i] = d

Users == {"addr1", "addr2"}
Addrs == Users \cup {ModuleName}
\* sdk.AccAddress{}.String()
EmptyAddr == ""

Nil == "nil"
ErrInvalidCoins == "ErrInvalidCoins"
ErrInsufficientFunds == "ErrInsufficientFunds"
ErrInputOutputMismatch == "ErrInputOutputMismatch"
ErrSendDisabled == "ErrSendDisabled"
PanicUnknownAddress == "panic: module account does not exist"
PanicUnauthorized == "panic: module account does not have permissions to burn tokens"
PanicNegativeAmount == "panic: negative coin amount"
PanicGenesis == "panic: genesis"
\* NewCoin on a negative amount: the message carries the amount
PanicNegativeCoin == "panic: negative coin amount: %v"
\* Subspace.SetParamSet on a value its validator rejects
PanicInvalidParams == "panic: value from ParamSetPair is invalid"
ErrInvalidParams == "ErrInvalidParams"
ErrInvalidAddress == "ErrInvalidAddress"
ErrUnauthorized == "ErrUnauthorized"
ErrInvalidProposalContent == "ErrInvalidProposalContent"
ErrInvalidProposalAmount == "ErrInvalidProposalAmount"
ErrEmptyProposalRecipient == "ErrEmptyProposalRecipient"
Panics == {PanicUnknownAddress, PanicUnauthorized, PanicNegativeAmount, PanicGenesis,
           PanicNegativeCoin, PanicInvalidParams}

(***************************************************************************)
(* sdk.Coin / sdk.Coins / sdk.Dec                                          *)
(***************************************************************************)
NewCoin(denom, amount) == [Denom |-> denom, Amount |-> amount]

\* Coins.IsValid: strictly positive amounts, denominations sorted and unique
CoinsIsValid(coins) ==
    /\ \A i \in 1..Len(coins) : coins[i].Amount > 0
    /\ \A i \in 1..Len(coins) : coins[i].Denom \in Denoms
    /\ \A i \in 1..(Len(coins) - 1) :
          DenomRank(coins[i].Denom) < DenomRank(coins[i + 1].Denom)

\* Coins.AmountOf
RECURSIVE AmountOfFrom(_, _, _)
AmountOfFrom(coins, denom, i) ==
    IF i > Len(coins) THEN 0
    ELSE IF coins[i].Denom = denom THEN coins[i].Amount
    ELSE AmountOfFrom(coins, denom, i + 1)

AmountOf(coins, denom) == AmountOfFrom(coins, denom, 1)

\* sum of every entry of a denomination (a Coins value under construction may
\* hold zero entries, never two entries of one denomination)
RECURSIVE SumOfFrom(_, _, _)
SumOfFrom(coins, denom, i) ==
    IF i > Len(coins) THEN 0
    ELSE (IF coins[i].Denom = denom THEN coins[i].Amount ELSE 0)
         + SumOfFrom(coins, denom, i + 1)

\* Coins.Add (safeAdd): merge by denomination, zero coins removed
RECURSIVE CoinsAddFrom(_, _, _)
CoinsAddFrom(a, b, k) ==
    IF k > Len(DenomSeq) THEN << >>
    ELSE LET d == DenomSeq[k]
             s == SumOfFrom(a, d, 1) + SumOfFrom(b, d, 1)
         IN (IF s # 0 THEN <<NewCoin(d, s)>> ELSE << >>) \o CoinsAddFrom(a, b, k + 1)

CoinsAdd(a, b) == CoinsAddFrom(a, b, 1)

\* Coins.IsZero: every coin is zero (true of the empty Coins)
CoinsIsZero(coins) == \A i \in 1..Len(coins) : coins[i].Amount = 0

\* Coins.IsEqual on sorted Coins
CoinsIsEqual(a, b) ==
    /\ Len(a) = Len(b)
    /\ \A i \in 1..Len(a) : a[i].Denom = b[i].Denom /\ a[i].Amount = b[i].Amount

\* sdk.NewDecFromInt(amount).Mul(percent).TruncateInt(): the product of an
\* integer and a Dec is exact, TruncateInt rounds toward zero
MulTruncateInt(amount, percent) ==
    LET x == amount * percent
    IN IF x >= 0 THEN x \div Precision ELSE -((-x) \div Precision)

(***************************************************************************)
(* KVStore: a function whose domain is the set of keys present             *)
(***************************************************************************)
EmptyStore == << >>
StoreHas(s, k) == k \in DOMAIN s
StoreSet(s, k, v) == [x \in (DOMAIN s) \cup {k} |-> IF x = k THEN v ELSE s[x]]
StoreDelete(s, k) == [x \in (DOMAIN s) \ {k} |-> s[x]]

(***************************************************************************)
(* Params (x/bank/types)                                                   *)
(***************************************************************************)
NewSendEnabled(denom, sendEnabled) == [Denom |-> denom, Enabled |-> sendEnabled]

NewParams(defaultSendEnabled, sendEnabledParams, supportDeflationary) ==
    [SendEnabled |-> sendEnabledParams,
     DefaultSendEnabled |-> defaultSendEnabled,
     SupportDeflationary |-> supportDeflationary]

DefaultParams == NewParams(TRUE, << >>, << >>)

\* Params.SendEnabledDenom: the first override of the denomination, else the default
RECURSIVE SendEnabledDenomFrom(_, _, _)
SendEnabledDenomFrom(p, denom, i) ==
    IF i > Len(p.SendEnabled) THEN p.DefaultSendEnabled
    ELSE IF p.SendEnabled[i].Denom = denom THEN p.SendEnabled[i].Enabled
    ELSE SendEnabledDenomFrom(p, denom, i + 1)

\* a lookup that forgets the overrides
SendEnabledDenom_DefaultOnly(p, denom) == p.DefaultSendEnabled

SendEnabledDenom(p, denom) == SendEnabledDenomFrom(p, denom, 1)

\* the entries of the other denominations, in their order
RECURSIVE sendParamsWithout(_, _, _)
sendParamsWithout(ps, denom, i) ==
    IF i > Len(ps) THEN << >>
    ELSE (IF ps[i].Denom # denom THEN <<NewSendEnabled(ps[i].Denom, ps[i].Enabled)>>
          ELSE << >>) \o sendParamsWithout(ps, denom, i + 1)

\* a SetSendEnabledParam that appends the entry and keeps the old ones
SetSendEnabledParam_AppendOnly(p, denom, sendEnabled) ==
    NewParams(p.DefaultSendEnabled,
              Append(p.SendEnabled, NewSendEnabled(denom, sendEnabled)),
              p.SupportDeflationary)

SetSendEnabledParam(p, denom, sendEnabled) ==
    NewParams(p.DefaultSendEnabled,
              Append(sendParamsWithout(p.SendEnabled, denom, 1),
                     NewSendEnabled(denom, sendEnabled)),
              p.SupportDeflationary)

IsWhitelistedTo(m, addr) ==
    \E i \in 1..Len(m.WhitelistedTo) : m.WhitelistedTo[i] = addr

IsWhitelistedFrom(m, addr) ==
    \E i \in 1..Len(m.WhitelistedFrom) : m.WhitelistedFrom[i] = addr

\* sdk.AccAddressFromBech32: the addresses of the model and "mint" decode,
\* the empty string and any other text do not
AccAddressFromBech32(addr) ==
    IF addr \in Addrs \cup {"mint"} THEN Nil ELSE ErrInvalidAddress

\* sdk.ValidateDenom
ValidateDenom(denom) == IF denom \in Denoms THEN Nil ELSE ErrInvalidParams

\* the Dec without a value behind it, written as a number no percentage takes
NilDec == -10000

\* a validateSdkDec without the upper bound
validateSdkDec_NoUpperBound(v) ==
    IF v = NilDec THEN ErrInvalidParams
    ELSE IF v < 0 THEN ErrInvalidParams
    ELSE Nil

\* validateSdkDec on a percentage in hundredths
validateSdkDec(v) ==
    IF v = NilDec THEN ErrInvalidParams
    ELSE IF v < 0 THEN ErrInvalidParams
    ELSE IF v > Precision THEN ErrInvalidParams
    ELSE Nil

validateSupportDeflationary(m) ==
    IF ValidateDenom(m.Denom) # Nil THEN ValidateDenom(m.Denom)
    ELSE IF \E i \in 1..Len(m.WhitelistedFrom) : AccAddressFromBech32(m.WhitelistedFrom[i]) # Nil
    THEN ErrInvalidAddress
    ELSE IF \E i \in 1..Len(m.WhitelistedTo) : AccAddressFromBech32(m.WhitelistedTo[i]) # Nil
    THEN ErrInvalidAddress
    ELSE IF validateSdkDec(m.BurnPercent) # Nil THEN validateSdkDec(m.BurnPercent)
    ELSE IF validateSdkDec(m.LiquidityPercent) # Nil THEN validateSdkDec(m.LiquidityPercent)
    ELSE validateSdkDec(m.FeeTaxPercent)

\* validateSupportDeflationaryParams: one rule per denomination, each rule valid
RECURSIVE validateSupportDeflationaryParamsFrom(_, _, _)
validateSupportDeflationaryParamsFrom(rules, i, registered) ==
    IF i > Len(rules) THEN Nil
    ELSE IF rules[i].Denom \in registered THEN ErrInvalidParams
    ELSE IF validateSupportDeflationary(rules[i]) # Nil
    THEN validateSupportDeflationary(rules[i])
    ELSE validateSupportDeflationaryParamsFrom(rules, i + 1,
                                               registered \cup {rules[i].Denom})

validateSupportDeflationaryParams(rules) ==
    validateSupportDeflationaryParamsFrom(rules, 1, {})

validateSendEnabled(param) == ValidateDenom(param.Denom)

RECURSIVE validateSendEnabledParamsFrom(_, _, _)
validateSendEnabledParamsFrom(ps, i, registered) ==
    IF i > Len(ps) THEN Nil
    ELSE IF ps[i].Denom \in registered THEN ErrInvalidParams
    ELSE IF validateSendEnabled(ps[i]) # Nil THEN validateSendEnabled(ps[i])
    ELSE validateSendEnabledParamsFrom(ps, i + 1, registered \cup {ps[i].Denom})

validateSendEnabledParams(ps) == validateSendEnabledParamsFrom(ps, 1, {})

\* Params.ParamSetPairs: the validator of every pair, as Subspace.SetParamSet
\* runs them
ParamSetPairs(p) ==
    IF validateSendEnabledParams(p.SendEnabled) # Nil
    THEN validateSendEnabledParams(p.SendEnabled)
    ELSE validateSupportDeflationaryParams(p.SupportDeflationary)

\* Params.Validate: the send-enabled list, then validateIsBool of the default
\* flag, which a bool always passes
Validate(p) ==
    IF validateSendEnabledParams(p.SendEnabled) # Nil
    THEN validateSendEnabledParams(p.SendEnabled)
    ELSE Nil

\* BaseSendKeeper.SetParams: SetParamSet panics when a validator rejects its value
SetParams(p) == IF ParamSetPairs(p) # Nil THEN PanicInvalidParams ELSE Nil

(***************************************************************************)
(* The context: the stores one call works on, and its event manager        *)
(***************************************************************************)
Ctx == [balances |-> balances, supply |-> supply, liquidityPool |-> liquidityPool,
        feeTaxPool |-> feeTaxPool, accounts |-> accounts, events |-> << >>,
        writes |-> << >>]

Ret(c, err) == [ctx |-> c, err |-> err]

\* the log of the writes of one call, in the order they are made: the store,
\* the key (a tuple) and the value written (0 for a deleted key)
Write(c, store, key, value) ==
    [c EXCEPT !.writes = Append(@, [Store |-> store, Key |-> key, Value |-> value])]

EmitEvent(c, ev) == [Write(c, "events", <<ev.Type>>, 0) EXCEPT !.events = Append(@, ev)]

Event(type, sender, recipient, amount) ==
    [Type |-> type, Sender |-> sender, Recipient |-> recipient, Amount |-> amount]

\* BaseViewKeeper.GetBalance: an absent key reads as a zero coin
GetBalance(c, addr, denom) ==
    IF StoreHas(c.balances, <<addr, denom>>)
    THEN NewCoin(denom, c.balances[<<addr, denom>>])
    ELSE NewCoin(denom, 0)

\* BaseViewKeeper.GetAllBalances
RECURSIVE GetAllBalancesFrom(_, _, _)
GetAllBalancesFrom(c, addr, k) ==
    IF k > Len(DenomSeq) THEN << >>
    ELSE (IF StoreHas(c.balances, <<addr, DenomSeq[k]>>)
          THEN <<NewCoin(DenomSeq[k], c.balances[<<addr, DenomSeq[k]>>])>>
          ELSE << >>) \o GetAllBalancesFrom(c, addr, k + 1)

GetAllBalances(c, addr) == GetAllBalancesFrom(c, addr, 1)

\* BaseViewKeeper.LockedCoins
LockedCoins(addr) == IF addr \in DOMAIN lockedCoins THEN lockedCoins[addr] ELSE << >>

\* AccountKeeper.GetModuleAccount: nil when the module has no registered account
GetModuleAccount(moduleName) ==
    IF moduleName = ModuleName /\ macc # "none" THEN ModuleName ELSE EmptyAddr

HasPermissionBurner(moduleName) == moduleName = ModuleName /\ macc = "burner"

(***************************************************************************)
(* BaseSendKeeper                                                          *)
(***************************************************************************)
\* a setBalance that stores the zero balance instead of deleting the key
setBalance_KeepZero(c, addr, balance) ==
    IF balance.Amount < 0 THEN Ret(c, ErrInvalidCoins)
    ELSE Ret([Write(c, "balances", <<addr, balance.Denom>>, balance.Amount)
                 EXCEPT !.balances = StoreSet(@, <<addr, balance.Denom>>, balance.Amount)], Nil)

setBalance(c, addr, balance) ==
    IF balance.Amount < 0 THEN Ret(c, ErrInvalidCoins)
    ELSE IF balance.Amount = 0
    THEN Ret([Write(c, "balances", <<addr, balance.Denom>>, 0)
                 EXCEPT !.balances = StoreDelete(@, <<addr, balance.Denom>>)], Nil)
    ELSE Ret([Write(c, "balances", <<addr, balance.Denom>>, balance.Amount)
                 EXCEPT !.balances = StoreSet(@, <<addr, balance.Denom>>, balance.Amount)], Nil)

getSupply(c, denom) ==
    IF StoreHas(c.supply, denom) THEN NewCoin(denom, c.supply[denom]) ELSE NewCoin(denom, 0)

setSupply(c, coin) ==
    IF coin.Amount = 0
    THEN [Write(c, "supply", <<coin.Denom>>, 0) EXCEPT !.supply = StoreDelete(@, coin.Denom)]
    ELSE [Write(c, "supply", <<coin.Denom>>, coin.Amount)
             EXCEPT !.supply = StoreSet(@, coin.Denom, coin.Amount)]

getLiquidityPool(c, denom) ==
    IF StoreHas(c.liquidityPool, denom)
    THEN NewCoin(denom, c.liquidityPool[denom]) ELSE NewCoin(denom, 0)

\* a setLiquidityPool that stores the zero amount instead of deleting the key
setLiquidityPool_KeepZero(c, coin) ==
    [Write(c, "liquidityPool", <<coin.Denom>>, coin.Amount)
        EXCEPT !.liquidityPool = StoreSet(@, coin.Denom, coin.Amount)]

setLiquidityPool(c, coin) ==
    IF coin.Amount = 0
    THEN [Write(c, "liquidityPool", <<coin.Denom>>, 0) EXCEPT !.liquidityPool = StoreDelete(@, coin.Denom)]
    ELSE [Write(c, "liquidityPool", <<coin.Denom>>, coin.Amount)
             EXCEPT !.liquidityPool = StoreSet(@, coin.Denom, coin.Amount)]

getFeeTaxPool(c, denom) ==
    IF StoreHas(c.feeTaxPool, denom)
    THEN NewCoin(denom, c.feeTaxPool[denom]) ELSE NewCoin(denom, 0)

setFeeTaxPool(c, coin) ==
    IF coin.Amount = 0
    THEN [Write(c, "feeTaxPool", <<coin.Denom>>, 0) EXCEPT !.feeTaxPool = StoreDelete(@, coin.Denom)]
    ELSE [Write(c, "feeTaxPool", <<coin.Denom>>, coin.Amount)
             EXCEPT !.feeTaxPool = StoreSet(@, coin.Denom, coin.Amount)]

\* subUnlockedCoins: each coin is checked and written in turn, so the coins
\* before a failing one stay debited
RECURSIVE subUnlockedCoinsFrom(_, _, _, _)
subUnlockedCoinsFrom(c, addr, amt, i) ==
    IF i > Len(amt)
    THEN Ret(EmitEvent(c, Event("coin_spent", addr, EmptyAddr, amt)), Nil)
    ELSE LET coin == amt[i]
             balance == GetBalance(c, addr, coin.Denom)
             locked == NewCoin(coin.Denom, AmountOf(LockedCoins(addr), coin.Denom))
             spendable == balance.Amount - locked.Amount
         IN IF spendable < 0 THEN Ret(c, PanicNegativeAmount)
            ELSE IF spendable - coin.Amount < 0 THEN Ret(c, ErrInsufficientFunds)
            ELSE LET r == setBalance(c, addr, NewCoin(coin.Denom, balance.Amount - coin.Amount))
                 IN IF r.err # Nil THEN r
                    ELSE subUnlockedCoinsFrom(r.ctx, addr, amt, i + 1)

subUnlockedCoins(c, addr, amt) ==
    IF ~CoinsIsValid(amt) THEN Ret(c, ErrInvalidCoins)
    ELSE subUnlockedCoinsFrom(c, addr, amt, 1)

RECURSIVE addCoinsFrom(_, _, _, _)
addCoinsFrom(c, addr, amt, i) ==
    IF i > Len(amt)
    THEN Ret(EmitEvent(c, Event("coin_received", EmptyAddr, addr, amt)), Nil)
    ELSE LET coin == amt[i]
             balance == GetBalance(c, addr, coin.Denom)
             r == setBalance(c, addr, NewCoin(coin.Denom, balance.Amount + coin.Amount))
         IN IF r.err # Nil THEN r ELSE addCoinsFrom(r.ctx, addr, amt, i + 1)

addCoins(c, addr, amt) ==
    IF ~CoinsIsValid(amt) THEN Ret(c, ErrInvalidCoins)
    ELSE addCoinsFrom(c, addr, amt, 1)

\* the supply loop of burnCoins; Coin.Sub panics on a negative result
RECURSIVE burnSupplyFrom(_, _, _)
burnSupplyFrom(c, amounts, i) ==
    IF i > Len(amounts) THEN Ret(c, Nil)
    ELSE LET sup == getSupply(c, amounts[i].Denom)
         IN IF sup.Amount - amounts[i].Amount < 0 THEN Ret(c, PanicNegativeAmount)
            ELSE burnSupplyFrom(
                    setSupply(c, NewCoin(sup.Denom, sup.Amount - amounts[i].Amount)),
                    amounts, i + 1)

\* a burnCoins that decrements the supply before it debits the module account
burnCoins_SupplyFirst(c, moduleName, amounts) ==
    LET acc == GetModuleAccount(moduleName)
    IN IF acc = EmptyAddr THEN Ret(c, PanicUnknownAddress)
       ELSE IF ~HasPermissionBurner(moduleName) THEN Ret(c, PanicUnauthorized)
       ELSE LET b == burnSupplyFrom(c, amounts, 1)
            IN IF b.err # Nil THEN b
               ELSE LET r == subUnlockedCoins(b.ctx, acc, amounts)
                    IN IF r.err # Nil THEN r
                       ELSE Ret(EmitEvent(r.ctx, Event("burn", acc, EmptyAddr, amounts)), Nil)

\* a burnCoins that debits the module account before it looks at the
\* account's permission
burnCoins_DebitBeforeCheck(c, moduleName, amounts) ==
    LET acc == GetModuleAccount(moduleName)
    IN IF acc = EmptyAddr THEN Ret(c, PanicUnknownAddress)
       ELSE LET r == subUnlockedCoins(c, acc, amounts)
            IN IF r.err # Nil THEN r
               ELSE IF ~HasPermissionBurner(moduleName) THEN Ret(r.ctx, PanicUnauthorized)
               ELSE LET b == burnSupplyFrom(r.ctx, amounts, 1)
                    IN IF b.err # Nil THEN b
                       ELSE Ret(EmitEvent(b.ctx, Event("burn", acc, EmptyAddr, amounts)), Nil)

burnCoins(c, moduleName, amounts) ==
    LET acc == GetModuleAccount(moduleName)
    IN IF acc = EmptyAddr THEN Ret(c, PanicUnknownAddress)
       ELSE IF ~HasPermissionBurner(moduleName) THEN Ret(c, PanicUnauthorized)
       ELSE LET r == subUnlockedCoins(c, acc, amounts)
            IN IF r.err # Nil THEN r
               ELSE LET b == burnSupplyFrom(r.ctx, amounts, 1)
                    IN IF b.err # Nil THEN b
                       ELSE Ret(EmitEvent(b.ctx, Event("burn", acc, EmptyAddr, amounts)), Nil)

(***************************************************************************)
(* deflationaryCoins                                                       *)
(***************************************************************************)
\* the rule loop testing the recipient for absence from the whitelist
ruleApplies_NotWhitelistedTo(deflationary, from, to, denom) ==
    /\ deflationary.Enabled
    /\ deflationary.Denom = denom
    /\ ~IsWhitelistedFrom(deflationary, from)
    /\ ~IsWhitelistedTo(deflationary, to)

\* the condition of the rule loop
ruleApplies(deflationary, from, to, denom) ==
    /\ deflationary.Enabled
    /\ deflationary.Denom = denom
    /\ ~IsWhitelistedFrom(deflationary, from)
    /\ IsWhitelistedTo(deflationary, to)

\* the three amounts a matching rule sets for a coin
ruleAmounts(deflationary, coin) ==
    [isDeflationary |-> TRUE,
     burnAmount |-> MulTruncateInt(coin.Amount, deflationary.LiquidityPercent),
     liquidityAmount |-> MulTruncateInt(coin.Amount, deflationary.LiquidityPercent),
     feeTarAmount |-> MulTruncateInt(coin.Amount, deflationary.LiquidityPercent)]

\* the inner loop over params.SupportDeflationary: every matching rule
\* overwrites the amounts, so the last one stands
RECURSIVE matchRules(_, _, _, _, _, _)
matchRules(rules, from, to, coin, j, acc) ==
    IF j > Len(rules) THEN acc
    ELSE matchRules(rules, from, to, coin, j + 1,
                    IF ruleApplies(rules[j], from, to, coin.Denom)
                    THEN ruleAmounts(rules[j], coin) ELSE acc)

NoAmounts == [isDeflationary |-> FALSE, burnAmount |-> 0, liquidityAmount |-> 0,
              feeTarAmount |-> 0]

\* the pool writes of one coin: Int.Add returns a new Int and the result is
\* dropped, so the pool read is written back as it was read
poolWrites(c, denom, m) ==
    LET c1 == IF m.liquidityAmount > 0
              THEN LET pool == getLiquidityPool(c, denom)
                       dropped == pool.Amount + m.liquidityAmount
                   IN setLiquidityPool(c, pool)
              ELSE c
    IN IF m.feeTarAmount > 0
       THEN LET pool == getFeeTaxPool(c1, denom)
                dropped == pool.Amount + m.feeTarAmount
            IN setFeeTaxPool(c1, pool)
       ELSE c1

\* the loop over amt; l carries the locals and the caller's slice
RECURSIVE splitLoop(_, _, _, _)
splitLoop(l, from, to, i) ==
    IF i > Len(l.amt) THEN l
    ELSE LET coin == l.amt[i]
             m == matchRules(params.SupportDeflationary, from, to, coin, 1, NoAmounts)
             sendAmount == coin.Amount - m.burnAmount - m.liquidityAmount - m.feeTarAmount
         IN IF ~m.isDeflationary THEN splitLoop(l, from, to, i + 1)
            ELSE IF sendAmount < 0 THEN [l EXCEPT !.err = PanicNegativeCoin]
            ELSE splitLoop(
                    [ctx |-> poolWrites(l.ctx, coin.Denom, m),
                     err |-> Nil,
                     amt |-> [l.amt EXCEPT ![i] = NewCoin(coin.Denom, sendAmount)],
                     burnCoins |-> Append(l.burnCoins, NewCoin(coin.Denom, m.burnAmount)),
                     liquidityCoins |-> Append(l.liquidityCoins,
                                               NewCoin(coin.Denom, m.liquidityAmount)),
                     feeTarCoins |-> Append(l.feeTarCoins, NewCoin(coin.Denom, m.feeTarAmount)),
                     applied |-> l.applied \cup {coin.Denom}],
                    from, to, i + 1)

\* what deflationaryCoins returns: the context, the error, the Coins returned
\* (the caller's slice itself), the caller's slice after the call and the
\* denominations split
splitReturn(l, c, err) ==
    [ctx |-> c, err |-> err, coins |-> l.amt, amt |-> l.amt, applied |-> l.applied]

\* the burn that ends deflationaryCoins; a is what addCoins returned
routeBurn(l, a) ==
    IF a.err # Nil THEN splitReturn(l, a.ctx, a.err)
    ELSE IF CoinsIsZero(l.burnCoins) THEN splitReturn(l, a.ctx, Nil)
    ELSE LET b == burnCoins(a.ctx, ModuleName, l.burnCoins)
         IN splitReturn(l, b.ctx, b.err)

\* deflationaryCoins after its loop: the credit of the module account
routeSplit(l, recipientAcc, totalCoins) ==
    IF l.err # Nil THEN splitReturn(l, l.ctx, l.err)
    ELSE IF recipientAcc = EmptyAddr THEN splitReturn(l, l.ctx, PanicUnknownAddress)
    ELSE IF CoinsIsZero(totalCoins) THEN splitReturn(l, l.ctx, Nil)
    ELSE routeBurn(l, addCoins(l.ctx, recipientAcc, totalCoins))

totalOf(l) == CoinsAdd(CoinsAdd(l.burnCoins, l.liquidityCoins), l.feeTarCoins)

routeLoopResult(l) == routeSplit(l, GetModuleAccount(ModuleName), totalOf(l))

deflationaryCoins(c, from, to, amt) ==
    routeLoopResult(
        splitLoop([ctx |-> c, err |-> Nil, amt |-> amt, burnCoins |-> << >>,
                   liquidityCoins |-> << >>, feeTarCoins |-> << >>, applied |-> {}],
                  from, to, 1))

\* the account-creation step shared by SendCoins and InputOutputCoins
\* an account creation that does not look for the account first
createAccount_Always(c, addr) ==
    [Write(c, "accounts", <<addr>>, 0) EXCEPT !.accounts = @ \cup {addr}]

createAccount(c, addr) ==
    IF addr \in c.accounts THEN c
    ELSE [Write(c, "accounts", <<addr>>, 0) EXCEPT !.accounts = @ \cup {addr}]

(***************************************************************************)
(* SendCoins, InputOutputCoins, IsSendEnabledCoins                         *)
(***************************************************************************)
Outcome(c, err, amtAfter, applied) ==
    [ctx |-> c, err |-> err, amtAfter |-> amtAfter, applied |-> applied, errDenom |-> ""]

\* a SendCoins that emits its events before it creates the recipient's account
sendCredited_EventsFirst(a, d, fromAddr, toAddr) ==
    IF a.err # Nil THEN Outcome(a.ctx, a.err, d.amt, d.applied)
    ELSE Outcome(createAccount(EmitEvent(EmitEvent(a.ctx,
                                                   Event("transfer", fromAddr, toAddr, d.amt)),
                                         Event("message", fromAddr, EmptyAddr, << >>)),
                               toAddr),
                 Nil, d.amt, d.applied)

\* SendCoins after addCoins: the account creation and the events
sendCredited(a, d, fromAddr, toAddr) ==
    IF a.err # Nil THEN Outcome(a.ctx, a.err, d.amt, d.applied)
    ELSE Outcome(EmitEvent(EmitEvent(createAccount(a.ctx, toAddr),
                                     Event("transfer", fromAddr, toAddr, d.amt)),
                           Event("message", fromAddr, EmptyAddr, << >>)),
                 Nil, d.amt, d.applied)

\* SendCoins after deflationaryCoins: the credit of the recipient
sendSplit(d, fromAddr, toAddr) ==
    IF d.err # Nil THEN Outcome(d.ctx, d.err, d.amt, d.applied)
    ELSE sendCredited(addCoins(d.ctx, toAddr, d.coins), d, fromAddr, toAddr)

\* SendCoins after subUnlockedCoins: the split
sendDebited(s, fromAddr, toAddr, amt) ==
    IF s.err # Nil THEN Outcome(s.ctx, s.err, amt, {})
    ELSE sendSplit(deflationaryCoins(s.ctx, fromAddr, toAddr, amt), fromAddr, toAddr)

SendCoinsResult(c, fromAddr, toAddr, amt) ==
    sendDebited(subUnlockedCoins(c, fromAddr, amt), fromAddr, toAddr, amt)

\* Input.ValidateBasic / Output.ValidateBasic
ValidateBasic(io) == io.Address \in Addrs /\ CoinsIsValid(io.Coins)

RECURSIVE TotalCoins(_, _)
TotalCoins(ios, i) ==
    IF i > Len(ios) THEN << >> ELSE CoinsAdd(ios[i].Coins, TotalCoins(ios, i + 1))

\* types.ValidateInputsOutputs
ValidateInputsOutputs(inputs, outputs) ==
    IF \E i \in 1..Len(inputs) : ~ValidateBasic(inputs[i]) THEN ErrInvalidCoins
    ELSE IF \E i \in 1..Len(outputs) : ~ValidateBasic(outputs[i]) THEN ErrInvalidCoins
    ELSE IF ~CoinsIsEqual(TotalCoins(inputs, 1), TotalCoins(outputs, 1))
         THEN ErrInputOutputMismatch
    ELSE Nil

RECURSIVE inputsLoop(_, _, _)
inputsLoop(c, inputs, i) ==
    IF i > Len(inputs) THEN Ret(c, Nil)
    ELSE LET s == subUnlockedCoins(c, inputs[i].Address, inputs[i].Coins)
         IN IF s.err # Nil THEN s
            ELSE inputsLoop(EmitEvent(s.ctx, Event("message", inputs[i].Address, EmptyAddr, << >>)),
                            inputs, i + 1)

\* o carries the context, the error, the outputs (their Coins are written by
\* deflationaryCoins) and the denominations split so far
outputsState(c, err, outputs, applied) ==
    [ctx |-> c, err |-> err, outputs |-> outputs, applied |-> applied]

\* one output after addCoins: the transfer event and the account creation
outputCredited(a, d, outs, ap, addr) ==
    IF a.err # Nil THEN outputsState(a.ctx, a.err, outs, ap)
    ELSE outputsState(createAccount(EmitEvent(a.ctx, Event("transfer", EmptyAddr, addr,
                                                            d.coins)),
                                    addr),
                      Nil, outs, ap)

\* one output after deflationaryCoins: the credit
outputSplit(d, outs, ap, addr) ==
    IF d.err # Nil THEN outputsState(d.ctx, d.err, outs, ap)
    ELSE outputCredited(addCoins(d.ctx, addr, d.coins), d, outs, ap, addr)

outputStep(o, i, d) ==
    outputSplit(d, [o.outputs EXCEPT ![i].Coins = d.amt], o.applied \cup d.applied,
                o.outputs[i].Address)

RECURSIVE outputsLoop(_, _)
outputsLoop(o, i) ==
    IF i > Len(o.outputs) \/ o.err # Nil THEN o
    ELSE outputsLoop(
            outputStep(o, i, deflationaryCoins(o.ctx, EmptyAddr, o.outputs[i].Address,
                                               o.outputs[i].Coins)),
            i + 1)

outputsDone(o) == Outcome(o.ctx, o.err, o.outputs, o.applied)

\* an InputOutputCoins that goes on to the outputs after an input failed
\* and reports the input's error at the end
withErr(o, err) == [o EXCEPT !.err = IF err # Nil THEN err ELSE @]

inputsDone_RunOutputs(s, outputs) ==
    withErr(outputsDone(outputsLoop(outputsState(s.ctx, Nil, outputs, {}), 1)), s.err)

inputsDone(s, outputs) ==
    IF s.err # Nil THEN Outcome(s.ctx, s.err, outputs, {})
    ELSE outputsDone(outputsLoop(outputsState(s.ctx, Nil, outputs, {}), 1))

\* an InputOutputCoins that goes to work without validating its arguments
InputOutputCoinsResult_NoValidate(c, inputs, outputs) ==
    inputsDone(inputsLoop(c, inputs, 1), outputs)

InputOutputCoinsResult(c, inputs, outputs) ==
    IF ValidateInputsOutputs(inputs, outputs) # Nil
    THEN Outcome(c, ValidateInputsOutputs(inputs, outputs), outputs, {})
    ELSE inputsDone(inputsLoop(c, inputs, 1), outputs)

\* a loop that goes through all coins and reports the last disabled one
RECURSIVE IsSendEnabledCoinsFrom_LastDisabled(_, _, _)
IsSendEnabledCoinsFrom_LastDisabled(p, coins, i) ==
    IF i > Len(coins) THEN [err |-> Nil, errDenom |-> ""]
    ELSE IF IsSendEnabledCoinsFrom_LastDisabled(p, coins, i + 1).err # Nil
    THEN IsSendEnabledCoinsFrom_LastDisabled(p, coins, i + 1)
    ELSE IF ~SendEnabledDenom(p, coins[i].Denom)
    THEN [err |-> ErrSendDisabled, errDenom |-> coins[i].Denom]
    ELSE [err |-> Nil, errDenom |-> ""]

\* IsSendEnabledCoins: the error names the first disabled denomination
RECURSIVE IsSendEnabledCoinsFrom(_, _, _)
IsSendEnabledCoinsFrom(p, coins, i) ==
    IF i > Len(coins) THEN [err |-> Nil, errDenom |-> ""]
    ELSE IF ~SendEnabledDenom(p, coins[i].Denom)
    THEN [err |-> ErrSendDisabled, errDenom |-> coins[i].Denom]
    ELSE IsSendEnabledCoinsFrom(p, coins, i + 1)

IsSendEnabledCoinsResult(c, coins) ==
    LET r == IsSendEnabledCoinsFrom(params, coins, 1)
    IN [Outcome(c, r.err, coins, {}) EXCEPT !.errDenom = r.errDenom]

(***************************************************************************)
(* HandleDeflationaryPoolSpendProposal                                     *)
(***************************************************************************)
\* BaseSendKeeper.blockedAddrs as the application hands it to
\* NewBaseSendKeeper: the module accounts
blockedAddrs == {ModuleName}

BlockedAddr(addr) == addr \in blockedAddrs

\* every coin of the amount is covered by the pool store
poolCovers(pool, coins) ==
    \A i \in 1..Len(coins) :
        (IF StoreHas(pool, coins[i].Denom) THEN pool[coins[i].Denom] ELSE 0)
            >= coins[i].Amount

RECURSIVE debitLiquidityPool(_, _, _)
debitLiquidityPool(c, coins, i) ==
    IF i > Len(coins) THEN c
    ELSE debitLiquidityPool(
            setLiquidityPool(c, NewCoin(coins[i].Denom,
                                        getLiquidityPool(c, coins[i].Denom).Amount
                                            - coins[i].Amount)),
            coins, i + 1)

RECURSIVE debitFeeTaxPool(_, _, _)
debitFeeTaxPool(c, coins, i) ==
    IF i > Len(coins) THEN c
    ELSE debitFeeTaxPool(
            setFeeTaxPool(c, NewCoin(coins[i].Denom,
                                     getFeeTaxPool(c, coins[i].Denom).Amount
                                         - coins[i].Amount)),
            coins, i + 1)

\* the credit of the second recipient; a is what the first credit returned
distributeSecond(a, feeTaxRecipient, feeTaxAmount) ==
    IF a.err # Nil THEN a ELSE addCoins(a.ctx, feeTaxRecipient, feeTaxAmount)

\* a distribution that pays the liquidity leg before it looks at the fee-tax leg
DistributeFromDeflationaryPool_LegByLeg(c, liquidityRecipient, feeTaxRecipient, liquidityAmount, feeTaxAmount) ==
    IF ~CoinsIsValid(liquidityAmount) \/ ~CoinsIsValid(feeTaxAmount)
    THEN Ret(c, ErrInvalidCoins)
    ELSE IF ~poolCovers(c.liquidityPool, liquidityAmount) THEN Ret(c, ErrInsufficientFunds)
    ELSE IF ~poolCovers(c.feeTaxPool, feeTaxAmount)
    THEN Ret(addCoins(debitLiquidityPool(c, liquidityAmount, 1), liquidityRecipient,
                      liquidityAmount).ctx,
             ErrInsufficientFunds)
    ELSE distributeSecond(
            addCoins(debitFeeTaxPool(debitLiquidityPool(c, liquidityAmount, 1),
                                     feeTaxAmount, 1),
                     liquidityRecipient, liquidityAmount),
            feeTaxRecipient, feeTaxAmount)

\* Keeper.DistributeFromDeflationaryPool: both legs are validated, then both
\* pools are debited and both recipients credited
DistributeFromDeflationaryPool(c, liquidityRecipient, feeTaxRecipient, liquidityAmount, feeTaxAmount) ==
    IF ~CoinsIsValid(liquidityAmount) \/ ~CoinsIsValid(feeTaxAmount)
    THEN Ret(c, ErrInvalidCoins)
    ELSE IF ~poolCovers(c.liquidityPool, liquidityAmount) THEN Ret(c, ErrInsufficientFunds)
    ELSE IF ~poolCovers(c.feeTaxPool, feeTaxAmount) THEN Ret(c, ErrInsufficientFunds)
    ELSE distributeSecond(
            addCoins(debitFeeTaxPool(debitLiquidityPool(c, liquidityAmount, 1),
                                     feeTaxAmount, 1),
                     liquidityRecipient, liquidityAmount),
            feeTaxRecipient, feeTaxAmount)

\* the handler's result in the shape the other operations return
proposalOutcome(r) == Outcome(r.ctx, r.err, << >>, {})

\* a handler that checks the liquidity recipient only
HandleDeflationaryPoolSpendProposalResult_LiquidityOnly(c, p) ==
    IF AccAddressFromBech32(p.LiquidityRecipient) # Nil
    THEN Outcome(c, AccAddressFromBech32(p.LiquidityRecipient), << >>, {})
    ELSE IF BlockedAddr(p.LiquidityRecipient) THEN Outcome(c, ErrUnauthorized, << >>, {})
    ELSE IF AccAddressFromBech32(p.FeeTaxRecipient) # Nil
    THEN Outcome(c, AccAddressFromBech32(p.FeeTaxRecipient), << >>, {})
    ELSE proposalOutcome(
            DistributeFromDeflationaryPool(c, p.LiquidityRecipient, p.FeeTaxRecipient,
                                           p.LiquidityAmount, p.FeeTaxAmount))

HandleDeflationaryPoolSpendProposalResult(c, p) ==
    IF AccAddressFromBech32(p.LiquidityRecipient) # Nil
    THEN Outcome(c, AccAddressFromBech32(p.LiquidityRecipient), << >>, {})
    ELSE IF BlockedAddr(p.LiquidityRecipient) THEN Outcome(c, ErrUnauthorized, << >>, {})
    ELSE IF AccAddressFromBech32(p.FeeTaxRecipient) # Nil
    THEN Outcome(c, AccAddressFromBech32(p.FeeTaxRecipient), << >>, {})
    ELSE IF BlockedAddr(p.FeeTaxRecipient) THEN Outcome(c, ErrUnauthorized, << >>, {})
    ELSE proposalOutcome(
            DistributeFromDeflationaryPool(c, p.LiquidityRecipient, p.FeeTaxRecipient,
                                           p.LiquidityAmount, p.FeeTaxAmount))

(***************************************************************************)
(* DeflationaryPoolSpendProposal.ValidateBasic                             *)
(***************************************************************************)
\* strings.TrimSpace of the texts the model draws
TrimSpace(text) == IF text = "  " THEN "" ELSE text

\* govtypes.ValidateAbstract: the title and the description are not blank
\* (their length limits are beyond the texts the model draws)
ValidateAbstract(csp) ==
    IF TrimSpace(csp.Title) = "" THEN ErrInvalidProposalContent
    ELSE IF TrimSpace(csp.Description) = "" THEN ErrInvalidProposalContent
    ELSE Nil

\* a ValidateBasic that does not look at the fee-tax recipient
ProposalValidateBasic_NoFeeTaxRecipient(csp) ==
    IF ValidateAbstract(csp) # Nil THEN ValidateAbstract(csp)
    ELSE IF ~CoinsIsValid(csp.LiquidityAmount) THEN ErrInvalidProposalAmount
    ELSE IF ~CoinsIsValid(csp.FeeTaxAmount) THEN ErrInvalidProposalAmount
    ELSE IF csp.LiquidityRecipient = "" THEN ErrEmptyProposalRecipient
    ELSE Nil

ProposalValidateBasic(csp) ==
    IF ValidateAbstract(csp) # Nil THEN ValidateAbstract(csp)
    ELSE IF ~CoinsIsValid(csp.LiquidityAmount) THEN ErrInvalidProposalAmount
    ELSE IF ~CoinsIsValid(csp.FeeTaxAmount) THEN ErrInvalidProposalAmount
    ELSE IF csp.LiquidityRecipient = "" THEN ErrEmptyProposalRecipient
    ELSE IF csp.FeeTaxRecipient = "" THEN ErrEmptyProposalRecipient
    ELSE Nil

(***************************************************************************)
(* InitGenesis                                                             *)
(***************************************************************************)
AddrSeq == <<"addr1", "addr2", ModuleName>>
AddrRank(a) == CHOOSE i \in 1..Len(AddrSeq) : AddrSeq[i] = a

\* types.SanitizeGenesisBalances: the balances sorted by address
RECURSIVE InsertBalance(_, _)
InsertBalance(sorted, b) ==
    IF sorted = << >> THEN <<b>>
    ELSE IF AddrRank(b.Address) < AddrRank(Head(sorted).Address) THEN <<b>> \o sorted
    ELSE <<Head(sorted)>> \o InsertBalance(Tail(sorted), b)

RECURSIVE SanitizeFrom(_, _, _)
SanitizeFrom(bs, i, sorted) ==
    IF i > Len(bs) THEN sorted ELSE SanitizeFrom(bs, i + 1, InsertBalance(sorted, bs[i]))

SanitizeGenesisBalances(bs) == SanitizeFrom(bs, 1, << >>)

\* initBalances writes every non-zero coin as it stands
RECURSIVE initBalancesFrom(_, _, _, _)
initBalancesFrom(c, addr, coins, i) ==
    IF i > Len(coins) THEN Ret(c, Nil)
    ELSE IF coins[i].Amount < 0 THEN Ret(c, ErrInvalidCoins)
    ELSE initBalancesFrom(
            IF coins[i].Amount # 0
            THEN [Write(c, "balances", <<addr, coins[i].Denom>>, coins[i].Amount)
                     EXCEPT !.balances = StoreSet(@, <<addr, coins[i].Denom>>,
                                                  coins[i].Amount)]
            ELSE c,
            addr, coins, i + 1)

initBalances(c, addr, coins) == initBalancesFrom(c, addr, coins, 1)

\* the balances loop of InitGenesis: g carries the context, the error and totalSupply
RECURSIVE genesisBalances(_, _, _)
genesisBalances(g, bs, i) ==
    IF i > Len(bs) THEN g
    ELSE LET r == initBalances(g.ctx, bs[i].Address, bs[i].Coins)
         IN IF r.err # Nil THEN [g EXCEPT !.ctx = r.ctx, !.err = PanicGenesis]
            ELSE genesisBalances([ctx |-> r.ctx, err |-> Nil,
                                  totalSupply |-> CoinsAdd(g.totalSupply, bs[i].Coins)],
                                 bs, i + 1)

RECURSIVE setSupplies(_, _, _)
setSupplies(c, coins, i) ==
    IF i > Len(coins) THEN c ELSE setSupplies(setSupply(c, coins[i]), coins, i + 1)

RECURSIVE setFeeTaxPools(_, _, _)
setFeeTaxPools(c, coins, i) ==
    IF i > Len(coins) THEN c ELSE setFeeTaxPools(setFeeTaxPool(c, coins[i]), coins, i + 1)

RECURSIVE setLiquidityPools(_, _, _)
setLiquidityPools(c, coins, i) ==
    IF i > Len(coins) THEN c ELSE setLiquidityPools(setLiquidityPool(c, coins[i]), coins, i + 1)

\* Coins.Add returns the sum and leaves its receiver alone: the sum of the two
\* pools is dropped and moduleHoldingsInt stays empty
InitGenesisResult(c, genState) ==
    LET bs == SanitizeGenesisBalances(genState.Balances)
        g == genesisBalances([ctx |-> c, err |-> Nil, totalSupply |-> << >>], bs, 1)
        moduleHoldingsInt == << >>
        dropped == CoinsAdd(CoinsAdd(moduleHoldingsInt, genState.LiquidityPool),
                            genState.FeeTaxPool)
        totalSupply == CoinsAdd(g.totalSupply, moduleHoldingsInt)
        c1 == setLiquidityPools(
                 setFeeTaxPools(setSupplies(g.ctx, totalSupply, 1), genState.FeeTaxPool, 1),
                 genState.LiquidityPool, 1)
        moduleAcc == GetModuleAccount(ModuleName)
        moduleBalances == GetAllBalances(c1, moduleAcc)
        c2 == IF CoinsIsZero(moduleBalances) THEN createAccount(c1, moduleAcc) ELSE c1
    IN IF SetParams(genState.Params) # Nil
       THEN Outcome(c, SetParams(genState.Params), << >>, {})
       ELSE IF g.err # Nil THEN Outcome(g.ctx, g.err, << >>, {})
       ELSE IF genState.Supply # << >> /\ ~CoinsIsEqual(genState.Supply, totalSupply)
            THEN Outcome(g.ctx, PanicGenesis, << >>, {})
       ELSE IF moduleAcc = EmptyAddr THEN Outcome(c1, PanicGenesis, << >>, {})
       ELSE IF ~CoinsIsEqual(moduleBalances, moduleHoldingsInt)
            THEN Outcome(c2, PanicGenesis, << >>, {})
       ELSE Outcome(c2, Nil, << >>, {})

(***************************************************************************)
(* The inputs the model draws                                              *)
(***************************************************************************)
Foo(n) == NewCoin(fooDenom, n)
Bar(n) == NewCoin(barDenom, n)

SupportDeflationary(enabled, percents, whitelistedFrom, whitelistedTo) ==
    [Denom |-> fooDenom, Enabled |-> enabled,
     BurnPercent |-> percents[1], LiquidityPercent |-> percents[2],
     FeeTaxPercent |-> percents[3],
     WhitelistedFrom |-> whitelistedFrom, WhitelistedTo |-> whitelistedTo]

\* <<burn, liquidity, fee-tax>> in hundredths
PercentChoices == {<<10, 5, 5>>, <<0, 5, 5>>, <<5, 10, 0>>}

\* <<whitelisted-from, whitelisted-to>>; "mint" is a third party, as in the test
WhitelistChoices == {<< <<"mint">>, <<"mint">> >>,
                     << << >>, <<"addr2">> >>,
                     << <<"addr1">>, <<"addr2">> >>}

\* percentages the validators accept although a transfer cannot pay them
\* (the second sums to 120%), and one they reject
SteepPercentChoices == {<<10, 50, 5>>, <<50, 40, 30>>}
RejectedPercents == <<150, 5, 5>>

\* rule sets with one defect each: a negative and a nil percentage, a
\* denomination that is none, a whitelist entry that is no address
MalformedRuleSets ==
    {<<SupportDeflationary(TRUE, <<10, -5, 5>>, << >>, <<"addr2">>)>>,
     <<SupportDeflationary(TRUE, <<10, 5, NilDec>>, << >>, <<"addr2">>)>>,
     << [Denom |-> "", Enabled |-> TRUE, BurnPercent |-> 10, LiquidityPercent |-> 5,
         FeeTaxPercent |-> 5, WhitelistedFrom |-> << >>, WhitelistedTo |-> <<"addr2">>] >>,
     <<SupportDeflationary(TRUE, <<10, 5, 5>>, << >>, <<"notbech32">>)>>,
     <<SupportDeflationary(TRUE, <<10, 5, 5>>, <<"notbech32">>, <<"addr2">>)>>}

\* a rule for each denomination, both taxing what addr2 receives
BarRule == [Denom |-> barDenom, Enabled |-> TRUE, BurnPercent |-> 10,
            LiquidityPercent |-> 5, FeeTaxPercent |-> 5,
            WhitelistedFrom |-> << >>, WhitelistedTo |-> <<"addr2">>]
BothDenomRules == <<BarRule, SupportDeflationary(TRUE, <<10, 5, 5>>, << >>, <<"addr2">>)>>

RuleSets ==
    {<< >>, BothDenomRules}
    \cup {<<SupportDeflationary(TRUE, p, w[1], w[2])>> :
              p \in PercentChoices, w \in WhitelistChoices}
    \cup {<<SupportDeflationary(FALSE, <<10, 5, 5>>, << >>, <<"addr2">>)>>}
    \cup {<<SupportDeflationary(TRUE, p, << >>, <<"addr2">>)>> :
              p \in SteepPercentChoices \cup {RejectedPercents}}
    \cup {<<SupportDeflationary(TRUE, <<10, 5, 5>>, << >>, <<"addr2">>),
             SupportDeflationary(TRUE, <<0, 5, 5>>, << >>, <<"addr2">>)>>}
    \cup MalformedRuleSets
    \cup {<<SupportDeflationary(TRUE, <<100, 0, 0>>, <<"mint">>, <<"mint">>)>>}

BaseRules == <<SupportDeflationary(TRUE, <<10, 5, 5>>, << >>, <<"addr2">>)>>
BaseParams == NewParams(TRUE, << >>, BaseRules)

ParamsChoices ==
    {NewParams(TRUE, << >>, r) : r \in RuleSets}
    \cup {NewParams(TRUE, <<NewSendEnabled(fooDenom, FALSE)>>, BaseRules),
          NewParams(FALSE, <<NewSendEnabled(fooDenom, TRUE)>>, BaseRules),
          NewParams(FALSE, << >>, BaseRules)}

Balance(addr, coins) == [Address |-> addr, Coins |-> coins]
FullBalance == <<Bar(50), Foo(100)>>

GenesisState(p, bs, sup, liq, fee) ==
    [Params |-> p, Balances |-> bs, Supply |-> sup, LiquidityPool |-> liq,
     FeeTaxPool |-> fee]

BaseGenesis(p) == GenesisState(p, <<Balance("addr1", FullBalance)>>, << >>, << >>, << >>)

BalancesChoices ==
    {<<Balance("addr1", FullBalance)>>,
     <<Balance("addr2", <<Bar(50), Foo(0)>>), Balance("addr1", FullBalance)>>,
     <<Balance("addr1", FullBalance), Balance(ModuleName, <<Foo(10)>>)>>}

\* <<liquidity pool, fee-tax pool>>
PoolChoices == {<< << >>, << >> >>, << <<Foo(7)>>, <<Foo(3)>> >>}

SumBalances(bs) == TotalCoins(bs, 1)

GenesisChoices ==
    {BaseGenesis(p) : p \in ParamsChoices}
    \cup UNION {{GenesisState(BaseParams, bs, sup, pl[1], pl[2]) :
                    sup \in {<< >>, SumBalances(bs),
                             CoinsAdd(SumBalances(bs), CoinsAdd(pl[1], pl[2]))}} :
                bs \in BalancesChoices, pl \in PoolChoices}

\* the deployment: the locked coins and the bank module account
DefaultConfig == [lockedCoins |-> << >>, macc |-> "burner"]
ConfigChoices ==
    {DefaultConfig,
     [lockedCoins |-> [a \in {"addr1"} |-> <<Foo(60)>>], macc |-> "burner"],
     [lockedCoins |-> << >>, macc |-> "noburner"],
     [lockedCoins |-> << >>, macc |-> "none"]}

AmtChoices == {<<Foo(50)>>, <<Foo(3)>>, <<Bar(25)>>, <<Bar(25), Foo(50)>>, <<Foo(0)>>,
               <<Bar(25), Foo(3)>>}

Input(addr, coins) == [Address |-> addr, Coins |-> coins]
Output(addr, coins) == [Address |-> addr, Coins |-> coins]

IOCoins == {<<Foo(50)>>, <<Bar(25), Foo(50)>>}

\* <<inputs, outputs>>
IOChoices ==
    {<< <<Input(a, c)>>, <<Output(b, c2)>> >> : a \in Users, b \in Users,
                                                  c \in IOCoins, c2 \in IOCoins}
    \cup {<< <<Input(a, <<Bar(25), Foo(50)>>)>>,
             <<Output("addr1", <<Bar(25)>>), Output("addr2", <<Foo(50)>>)>> >> : a \in Users}
    \cup {<< <<Input("addr1", <<Foo(50)>>), Input("addr2", <<Bar(25)>>)>>,
             <<Output("addr2", <<Bar(25), Foo(50)>>)>> >>}
    \cup {<< <<Input("addr1", <<Bar(25), Foo(3)>>)>>,
             <<Output("addr2", <<Bar(25)>>), Output("addr2", <<Foo(3)>>)>> >>}

\* types.DeflationaryPoolSpendProposal
DeflationaryPoolSpendProposal(title, description, liquidityRecipient, feeTaxRecipient, liquidityAmount, feeTaxAmount) ==
    [Title |-> title, Description |-> description, LiquidityRecipient |-> liquidityRecipient, FeeTaxRecipient |-> feeTaxRecipient,
     LiquidityAmount |-> liquidityAmount, FeeTaxAmount |-> feeTaxAmount]

NoProposal == DeflationaryPoolSpendProposal("", "", EmptyAddr, EmptyAddr, << >>, << >>)

\* <<liquidity recipient, fee-tax recipient>>: two users, a blocked module
\* account on either side, a text that is no address
RecipientChoices == {<<"addr1", "addr2">>, <<ModuleName, "addr2">>, <<"addr1", ModuleName>>,
                     <<"notbech32", ModuleName>>}

\* <<liquidity amount, fee-tax amount>> against pools of 7foo and 3foo
SpendChoices == {<< <<Foo(5)>>, <<Foo(2)>> >>, << <<Foo(5)>>, <<Foo(5)>> >>,
                 << <<Foo(9)>>, <<Foo(2)>> >>}

ProposalChoices ==
    {DeflationaryPoolSpendProposal("test", "description", r[1], r[2], a[1], a[2]) :
        r \in RecipientChoices, a \in SpendChoices}

SendEnabledQueries == {<<Foo(1)>>, <<Bar(1), Foo(1)>>, <<Foo(1), Bar(1)>>}

(***************************************************************************)
(* ExportGenesis                                                           *)
(***************************************************************************)
\* query.Paginate over a store keyed by denomination with Limit MaxLimit:
\* the entries in key order, each added to the Coins with Coins.Add
RECURSIVE paginateCoins(_, _)
paginateCoins(store, k) ==
    IF k > Len(DenomSeq) THEN << >>
    ELSE (IF StoreHas(store, DenomSeq[k]) /\ store[DenomSeq[k]] # 0
          THEN <<NewCoin(DenomSeq[k], store[DenomSeq[k]])>> ELSE << >>)
         \o paginateCoins(store, k + 1)

GetPaginatedTotalSupply(c) == paginateCoins(c.supply, 1)

\* a total of the liquidity pool that reads the fee-tax pool store
getPaginatedTotalLiquidityPool_FeeTaxStore(c) == paginateCoins(c.feeTaxPool, 1)

getPaginatedTotalLiquidityPool(c) == paginateCoins(c.liquidityPool, 1)

getPaginatedTotalFeeTaxPool(c) == paginateCoins(c.feeTaxPool, 1)

\* BaseViewKeeper.GetAccountsBalances: one Balance for every address with a
\* stored balance, in the order of the addresses
RECURSIVE GetAccountsBalancesFrom(_, _)
GetAccountsBalancesFrom(c, k) ==
    IF k > Len(AddrSeq) THEN << >>
    ELSE (IF GetAllBalances(c, AddrSeq[k]) # << >>
          THEN <<Balance(AddrSeq[k], GetAllBalances(c, AddrSeq[k]))>> ELSE << >>)
         \o GetAccountsBalancesFrom(c, k + 1)

GetAccountsBalances(c) == GetAccountsBalancesFrom(c, 1)

ExportGenesisResult(c) ==
    GenesisState(params, GetAccountsBalances(c), GetPaginatedTotalSupply(c),
                 getPaginatedTotalLiquidityPool(c), getPaginatedTotalFeeTaxPool(c))

(***************************************************************************)
(* The state machine                                                       *)
(***************************************************************************)
Stores == [balances |-> balances, supply |-> supply, liquidityPool |-> liquidityPool,
           feeTaxPool |-> feeTaxPool, accounts |-> accounts]

NoGenesis == GenesisState(DefaultParams, << >>, << >>, << >>, << >>)

Call(op, from, to, amt, inputs, outputs, gen) ==
    [op |-> op, from |-> from, to |-> to, amt |-> amt, inputs |-> inputs,
     outputs |-> outputs, gen |-> gen, proposal |-> NoProposal, denom |-> "",
     flag |-> FALSE, height |-> 0, exported |-> NoGenesis]

\* commit the context an operation leaves behind and record the operation
Apply(call, r) ==
    /\ balances' = r.ctx.balances
    /\ supply' = r.ctx.supply
    /\ liquidityPool' = r.ctx.liquidityPool
    /\ feeTaxPool' = r.ctx.feeTaxPool
    /\ accounts' = r.ctx.accounts
    /\ phase' = IF r.err \in Panics THEN "halted" ELSE "run"
    /\ UNCHANGED <<SupportEGFProposalBlock, egfSetBy>>
    /\ last' = [op |-> call.op, from |-> call.from, to |-> call.to, amt |-> call.amt,
                inputs |-> call.inputs, outputs |-> call.outputs, gen |-> call.gen,
                proposal |-> call.proposal, denom |-> call.denom, flag |-> call.flag,
                height |-> call.height, exported |-> call.exported,
                prm |-> params,
                err |-> r.err, errDenom |-> r.errDenom, amtAfter |-> r.amtAfter,
                applied |-> r.applied, events |-> r.ctx.events,
                writes |-> r.ctx.writes, pre |-> Stores]

\* the application instances of one process (one simapp.Setup each)
Apps == {"app1", "app2", "app3"}

\* var SupportEGFProposalBlock = int64(0)
EGFInit ==
    /\ SupportEGFProposalBlock = 0
    /\ egfSetBy = [a \in Apps |-> 0]

Init ==
    /\ EGFInit
    /\ balances = EmptyStore
    /\ supply = EmptyStore
    /\ liquidityPool = EmptyStore
    /\ feeTaxPool = EmptyStore
    /\ accounts = {"addr1"}
    /\ params = DefaultParams
    /\ \E cfg \in ConfigChoices : lockedCoins = cfg.lockedCoins /\ macc = cfg.macc
    /\ phase = "boot"
    /\ ops = 0
    /\ last = [op |-> "none", from |-> EmptyAddr, to |-> EmptyAddr, amt |-> << >>,
               inputs |-> << >>, outputs |-> << >>, gen |-> NoGenesis,
               proposal |-> NoProposal, denom |-> "", flag |-> FALSE, height |-> 0,
               exported |-> NoGenesis,
               prm |-> DefaultParams,
               err |-> Nil, errDenom |-> "", amtAfter |-> << >>, applied |-> {},
               events |-> << >>, writes |-> << >>,
               pre |-> [balances |-> EmptyStore, supply |-> EmptyStore,
                        liquidityPool |-> EmptyStore, feeTaxPool |-> EmptyStore,
                        accounts |-> {"addr1"}]]

InitGenesis ==
    /\ phase = "boot"
    /\ \E genState \in GenesisChoices :
          /\ \/ (lockedCoins = DefaultConfig.lockedCoins /\ macc = DefaultConfig.macc)
             \/ genState = BaseGenesis(BaseParams)
          /\ params' = IF SetParams(genState.Params) = Nil THEN genState.Params ELSE params
          /\ Apply(Call("InitGenesis", EmptyAddr, EmptyAddr, << >>, << >>, << >>, genState),
                   InitGenesisResult(Ctx, genState))
    /\ UNCHANGED <<lockedCoins, macc, ops>>

SendCoins ==
    /\ phase = "run"
    /\ ops < MaxOps
    /\ \E fromAddr \in Users, toAddr \in Users, amt \in AmtChoices :
          Apply(Call("SendCoins", fromAddr, toAddr, amt, << >>, << >>, NoGenesis),
                SendCoinsResult(Ctx, fromAddr, toAddr, amt))
    /\ ops' = ops + 1
    /\ UNCHANGED <<params, lockedCoins, macc>>

InputOutputCoins ==
    /\ phase = "run"
    /\ ops < MaxOps
    /\ \E io \in IOChoices :
          Apply(Call("InputOutputCoins", EmptyAddr, EmptyAddr, << >>, io[1], io[2], NoGenesis),
                InputOutputCoinsResult(Ctx, io[1], io[2]))
    /\ ops' = ops + 1
    /\ UNCHANGED <<params, lockedCoins, macc>>

IsSendEnabledCoins ==
    /\ phase = "run"
    /\ ops < MaxOps
    /\ \E coins \in SendEnabledQueries :
          Apply(Call("IsSendEnabledCoins", EmptyAddr, EmptyAddr, coins, << >>, << >>, NoGenesis),
                IsSendEnabledCoinsResult(Ctx, coins))
    /\ ops' = ops + 1
    /\ UNCHANGED <<params, lockedCoins, macc>>

HandleDeflationaryPoolSpendProposal ==
    /\ phase = "run"
    /\ ops < MaxOps
    /\ \E p \in ProposalChoices :
          Apply([Call("HandleDeflationaryPoolSpendProposal", EmptyAddr, EmptyAddr, << >>,
                      << >>, << >>, NoGenesis) EXCEPT !.proposal = p],
                HandleDeflationaryPoolSpendProposalResult(Ctx, p))
    /\ ops' = ops + 1
    /\ UNCHANGED <<params, lockedCoins, macc>>

\* ExportGenesis reads the stores; gen stays the genesis state of the load
\* that the export follows
ExportGenesis ==
    /\ phase = "run"
    /\ ops < MaxOps
    /\ last' = [last EXCEPT !.op = "ExportGenesis", !.exported = ExportGenesisResult(Ctx),
                            !.from = EmptyAddr, !.to = EmptyAddr, !.amt = << >>,
                            !.inputs = << >>, !.outputs = << >>,
                            !.err = Nil, !.errDenom = "", !.amtAfter = << >>,
                            !.applied = {}, !.events = << >>, !.writes = << >>,
                            !.prm = params, !.pre = Stores]
    /\ ops' = ops + 1
    /\ UNCHANGED <<balances, supply, liquidityPool, feeTaxPool, accounts, params,
                   lockedCoins, macc, phase, SupportEGFProposalBlock, egfSetBy>>

Next ==
    \/ ExportGenesis
    \/ InitGenesis
    \/ SendCoins
    \/ InputOutputCoins
    \/ IsSendEnabledCoins
    \/ HandleDeflationaryPoolSpendProposal

Spec == Init /\ [][Next]_vars

(***************************************************************************)
(* burnCoins on its own: the module account holds some coins, the supply   *)
(* is the sum of all balances, and burnCoins is called with an amount      *)
(***************************************************************************)
\* what the module account holds
ModuleHoldingChoices == {<< >>, <<Foo(5)>>, <<Foo(10)>>, <<Bar(5)>>, <<Bar(5), Foo(5)>>,
                         <<Bar(5), Foo(10)>>, <<Bar(10), Foo(20)>>}

BurnChoices == {<<Foo(5)>>, <<Foo(10)>>, <<Bar(5), Foo(5)>>, <<Bar(5), Foo(10)>>,
                <<Foo(0)>>}

\* the stores of a ledger where addr1 holds FullBalance and the module
\* account holds h
EmptyCtx == [balances |-> EmptyStore, supply |-> EmptyStore, liquidityPool |-> EmptyStore,
             feeTaxPool |-> EmptyStore, accounts |-> {"addr1", ModuleName},
             events |-> << >>, writes |-> << >>]

HoldingStores(h) ==
    setSupplies(initBalances(initBalances(EmptyCtx, "addr1", FullBalance).ctx,
                             ModuleName, h).ctx,
                CoinsAdd(FullBalance, h), 1)

BurnCoinsResult(c, moduleName, amounts) == proposalOutcome(burnCoins(c, moduleName, amounts))

BurnInit ==
    /\ EGFInit
    /\ \E h \in ModuleHoldingChoices :
          /\ balances = HoldingStores(h).balances
          /\ supply = HoldingStores(h).supply
          /\ last = [op |-> "none", from |-> EmptyAddr, to |-> EmptyAddr, amt |-> << >>,
                     inputs |-> << >>, outputs |-> << >>, gen |-> NoGenesis,
                     proposal |-> NoProposal, denom |-> "", flag |-> FALSE, height |-> 0,
                     exported |-> NoGenesis,
                     prm |-> DefaultParams,
                     err |-> Nil, errDenom |-> "", amtAfter |-> << >>, applied |-> {},
                     events |-> << >>, writes |-> << >>,
                     pre |-> [balances |-> HoldingStores(h).balances,
                              supply |-> HoldingStores(h).supply,
                              liquidityPool |-> EmptyStore, feeTaxPool |-> EmptyStore,
                              accounts |-> {"addr1", ModuleName}]]
    /\ liquidityPool = EmptyStore
    /\ feeTaxPool = EmptyStore
    /\ accounts = {"addr1", ModuleName}
    /\ params = DefaultParams
    /\ lockedCoins = << >>
    /\ macc \in {"burner", "noburner", "none"}
    /\ phase = "run"
    /\ ops = 0

BurnCoins ==
    /\ phase = "run"
    /\ ops < MaxOps
    /\ \E amounts \in BurnChoices :
          Apply(Call("burnCoins", ModuleName, EmptyAddr, amounts, << >>, << >>, NoGenesis),
                BurnCoinsResult(Ctx, ModuleName, amounts))
    /\ ops' = ops + 1
    /\ UNCHANGED <<params, lockedCoins, macc>>

BurnNext == BurnCoins

BurnSpec == BurnInit /\ [][BurnNext]_vars

(***************************************************************************)
(* SendCoins on its own: the keeper is wired with or without a bank module *)
(* account and works on stores that hold addr1's balance and the supply    *)
(***************************************************************************)
SendParamsChoices ==
    {DefaultParams, BaseParams,
     NewParams(TRUE, << >>, <<SupportDeflationary(TRUE, <<10, 5, 5>>, <<"mint">>, <<"mint">>)>>)}

SendInit ==
    /\ EGFInit
    /\ balances = HoldingStores(<< >>).balances
    /\ supply = HoldingStores(<< >>).supply
    /\ liquidityPool = EmptyStore
    /\ feeTaxPool = EmptyStore
    /\ accounts = {"addr1"}
    /\ params \in SendParamsChoices
    /\ \E cfg \in ConfigChoices : lockedCoins = cfg.lockedCoins
    /\ macc \in {"burner", "noburner", "none"}
    /\ phase = "run"
    /\ ops = 0
    /\ last = [op |-> "none", from |-> EmptyAddr, to |-> EmptyAddr, amt |-> << >>,
               inputs |-> << >>, outputs |-> << >>, gen |-> NoGenesis,
               proposal |-> NoProposal, denom |-> "", flag |-> FALSE, height |-> 0,
               exported |-> NoGenesis,
               prm |-> DefaultParams,
               err |-> Nil, errDenom |-> "", amtAfter |-> << >>, applied |-> {},
               events |-> << >>, writes |-> << >>,
               pre |-> [balances |-> HoldingStores(<< >>).balances,
                        supply |-> HoldingStores(<< >>).supply,
                        liquidityPool |-> EmptyStore, feeTaxPool |-> EmptyStore,
                        accounts |-> {"addr1"}]]

SendNext == SendCoins

SendSpec == SendInit /\ [][SendNext]_vars

(***************************************************************************)
(* Params.SetSendEnabledParam on its own: a Params value is drawn and the  *)
(* method is applied to it, its result taking the place of the value       *)
(***************************************************************************)
SendEnabledListChoices ==
    {<< >>,
     <<NewSendEnabled(fooDenom, TRUE)>>,
     <<NewSendEnabled(fooDenom, FALSE)>>,
     <<NewSendEnabled(barDenom, FALSE)>>,
     <<NewSendEnabled(fooDenom, FALSE), NewSendEnabled(barDenom, TRUE)>>,
     <<NewSendEnabled(barDenom, TRUE), NewSendEnabled(fooDenom, FALSE)>>,
     <<NewSendEnabled(fooDenom, FALSE), NewSendEnabled(fooDenom, TRUE)>>}

ParamsValues ==
    {NewParams(def, ps, r) : def \in BOOLEAN, ps \in SendEnabledListChoices,
                             r \in RuleSets}

ParamsInit ==
    /\ EGFInit
    /\ balances = EmptyStore
    /\ supply = EmptyStore
    /\ liquidityPool = EmptyStore
    /\ feeTaxPool = EmptyStore
    /\ accounts = {"addr1"}
    /\ params \in ParamsValues
    /\ lockedCoins = << >>
    /\ macc = "burner"
    /\ phase = "run"
    /\ ops = 0
    /\ last = [op |-> "none", from |-> EmptyAddr, to |-> EmptyAddr, amt |-> << >>,
               inputs |-> << >>, outputs |-> << >>, gen |-> NoGenesis,
               proposal |-> NoProposal, denom |-> "", flag |-> FALSE, height |-> 0,
               exported |-> NoGenesis,
               prm |-> DefaultParams,
               err |-> Nil, errDenom |-> "", amtAfter |-> << >>, applied |-> {},
               events |-> << >>, writes |-> << >>,
               pre |-> [balances |-> EmptyStore, supply |-> EmptyStore,
                        liquidityPool |-> EmptyStore, feeTaxPool |-> EmptyStore,
                        accounts |-> {"addr1"}]]

SetSendEnabled ==
    /\ phase = "run"
    /\ ops < MaxOps
    /\ \E denom \in Denoms, sendEnabled \in BOOLEAN :
          /\ params' = SetSendEnabledParam(params, denom, sendEnabled)
          /\ Apply([Call("SetSendEnabledParam", EmptyAddr, EmptyAddr, << >>, << >>, << >>,
                          NoGenesis) EXCEPT !.denom = denom, !.flag = sendEnabled],
                   Outcome(Ctx, Nil, << >>, {}))
    /\ ops' = ops + 1
    /\ UNCHANGED <<lockedCoins, macc>>

ValidateParams ==
    /\ phase = "run"
    /\ ops < MaxOps
    /\ Apply(Call("Validate", EmptyAddr, EmptyAddr, << >>, << >>, << >>, NoGenesis),
             Outcome(Ctx, Validate(params), << >>, {}))
    /\ ops' = ops + 1
    /\ UNCHANGED <<params, lockedCoins, macc>>

ParamsNext ==
    \/ SetSendEnabled
    \/ ValidateParams

ParamsSpec == ParamsInit /\ [][ParamsNext]_vars

(***************************************************************************)
(* The EGF activation height of x/gov/types: two application instances of  *)
(* one process set and read it                                             *)
(***************************************************************************)
HeightChoices == {0, 50, 100, 200}

GovInit ==
    /\ EGFInit
    /\ balances = EmptyStore
    /\ supply = EmptyStore
    /\ liquidityPool = EmptyStore
    /\ feeTaxPool = EmptyStore
    /\ accounts = {"addr1"}
    /\ params = DefaultParams
    /\ lockedCoins = << >>
    /\ macc = "burner"
    /\ phase = "run"
    /\ ops = 0
    /\ last = [op |-> "none", from |-> EmptyAddr, to |-> EmptyAddr, amt |-> << >>,
               inputs |-> << >>, outputs |-> << >>, gen |-> NoGenesis,
               proposal |-> NoProposal, denom |-> "", flag |-> FALSE, height |-> 0,
               exported |-> NoGenesis,
               prm |-> DefaultParams,
               err |-> Nil, errDenom |-> "", amtAfter |-> << >>, applied |-> {},
               events |-> << >>, writes |-> << >>,
               pre |-> [balances |-> EmptyStore, supply |-> EmptyStore,
                        liquidityPool |-> EmptyStore, feeTaxPool |-> EmptyStore,
                        accounts |-> {"addr1"}]]

\* record a call of the gov package made by the instance app
govCall(op, app, height) ==
    /\ last' = [last EXCEPT !.op = op, !.from = app, !.height = height]
    /\ ops' = ops + 1
    /\ UNCHANGED <<balances, supply, liquidityPool, feeTaxPool, accounts, params,
                   lockedCoins, macc, phase>>

SetEGFProposalSupportBlock ==
    /\ phase = "run"
    /\ ops < MaxOps
    /\ \E app \in Apps, blockHeight \in HeightChoices :
          /\ SupportEGFProposalBlock' = blockHeight
          /\ egfSetBy' = [egfSetBy EXCEPT ![app] = blockHeight]
          /\ govCall("SetEGFProposalSupportBlock", app, blockHeight)

GetEGFProposalSupportBlock ==
    /\ phase = "run"
    /\ ops < MaxOps
    /\ \E app \in Apps :
          /\ govCall("GetEGFProposalSupportBlock", app, SupportEGFProposalBlock)
          /\ UNCHANGED <<SupportEGFProposalBlock, egfSetBy>>

GovNext ==
    \/ SetEGFProposalSupportBlock
    \/ GetEGFProposalSupportBlock

GovSpec == GovInit /\ [][GovNext]_vars

(***************************************************************************)
(* DeflationaryPoolSpendProposal.ValidateBasic on its own: a proposal is   *)
(* drawn and validated, as at its submission                               *)
(***************************************************************************)
\* every combination of a good and a defective title, description, recipient
\* and amount
ProposalValues ==
    {DeflationaryPoolSpendProposal(t, d, lr, fr, la, fa) :
        t \in {"test", "", "  "}, d \in {"description", ""},
        lr \in {"addr1", "", "notbech32"}, fr \in {"addr2", ""},
        la \in {<<Foo(5)>>, <<Foo(0)>>, <<Foo(1), Bar(1)>>},
        fa \in {<<Foo(2)>>, <<Foo(0)>>}}

ProposalInit ==
    /\ EGFInit
    /\ balances = EmptyStore
    /\ supply = EmptyStore
    /\ liquidityPool = EmptyStore
    /\ feeTaxPool = EmptyStore
    /\ accounts = {"addr1"}
    /\ params = DefaultParams
    /\ lockedCoins = << >>
    /\ macc = "burner"
    /\ phase = "run"
    /\ ops = 0
    /\ last = [op |-> "none", from |-> EmptyAddr, to |-> EmptyAddr, amt |-> << >>,
               inputs |-> << >>, outputs |-> << >>, gen |-> NoGenesis,
               proposal |-> NoProposal, denom |-> "", flag |-> FALSE, height |-> 0,
               exported |-> NoGenesis,
               prm |-> DefaultParams,
               err |-> Nil, errDenom |-> "", amtAfter |-> << >>, applied |-> {},
               events |-> << >>, writes |-> << >>,
               pre |-> [balances |-> EmptyStore, supply |-> EmptyStore,
                        liquidityPool |-> EmptyStore, feeTaxPool |-> EmptyStore,
                        accounts |-> {"addr1"}]]

ValidateProposal ==
    /\ phase = "run"
    /\ ops < MaxOps
    /\ \E csp \in ProposalValues :
          Apply([Call("ValidateBasic", EmptyAddr, EmptyAddr, << >>, << >>, << >>,
                      NoGenesis) EXCEPT !.proposal = csp],
                Outcome(Ctx, ProposalValidateBasic(csp), << >>, {}))
    /\ ops' = ops + 1
    /\ UNCHANGED <<params, lockedCoins, macc>>

ProposalNext == ValidateProposal

ProposalSpec == ProposalInit /\ [][ProposalNext]_vars

(***************************************************************************)
(* Vocabulary of the properties                                            *)
(***************************************************************************)
\* amount stored under a key of a store (0 when the key is absent)
Stored(store, key) == IF key \in DOMAIN store THEN store[key] ELSE 0

BalanceOf(st, addr, denom) == Stored(st.balances, <<addr, denom>>)

RECURSIVE SumOverAddrs(_, _, _)
SumOverAddrs(st, denom, k) ==
    IF k > Len(AddrSeq) THEN 0
    ELSE BalanceOf(st, AddrSeq[k], denom) + SumOverAddrs(st, denom, k + 1)

TotalBalance(st, denom) == SumOverAddrs(st, denom, 1)

\* what an address gained in a denomination over the last operation
Gain(addr, denom) == BalanceOf(Stores, addr, denom) - BalanceOf(last.pre, addr, denom)

\* what the recipient of the last SendCoins was credited: its gain, the
\* debit put back when it is also the sender
Credited(denom) ==
    Gain(last.to, denom) + (IF last.from = last.to THEN AmountOf(last.amt, denom) ELSE 0)

\* what the sender of the last SendCoins was debited
Debited(denom) ==
    (IF last.from = last.to THEN Credited(denom) ELSE 0) - Gain(last.from, denom)

\* the rules of a denomination that the specification lets apply to a
\* transfer: enabled, sender not whitelisted-from, recipient whitelisted-to
MatchingRules(from, to, denom) ==
    {j \in 1..Len(params.SupportDeflationary) :
        LET m == params.SupportDeflationary[j]
        IN /\ m.Denom = denom
           /\ m.Enabled
           /\ from \notin {m.WhitelistedFrom[k] : k \in 1..Len(m.WhitelistedFrom)}
           /\ to \in {m.WhitelistedTo[k] : k \in 1..Len(m.WhitelistedTo)}}

Taxed(from, to, denom) == MatchingRules(from, to, denom) # {}

TheRule(from, to, denom) ==
    params.SupportDeflationary[CHOOSE j \in MatchingRules(from, to, denom) : TRUE]

\* the three portions as the specification defines them
Percent(amount, percent) == (amount * percent) \div Precision
SpecBurn(from, to, coin) ==
    IF Taxed(from, to, coin.Denom)
    THEN Percent(coin.Amount, TheRule(from, to, coin.Denom).BurnPercent) ELSE 0
SpecLiquidity(from, to, coin) ==
    IF Taxed(from, to, coin.Denom)
    THEN Percent(coin.Amount, TheRule(from, to, coin.Denom).LiquidityPercent) ELSE 0
SpecFeeTax(from, to, coin) ==
    IF Taxed(from, to, coin.Denom)
    THEN Percent(coin.Amount, TheRule(from, to, coin.Denom).FeeTaxPercent) ELSE 0

SendSucceeded == last.op = "SendCoins" /\ last.err = Nil

\* a successful SendCoins and a coin of it that the specification taxes
TaxedCoins ==
    IF SendSucceeded
    THEN {i \in 1..Len(last.amt) : Taxed(last.from, last.to, last.amt[i].Denom)}
    ELSE {}

StoresUnchanged == Stores = last.pre

(***************************************************************************)
(* C1: after InitGenesis and after every later SendCoins or                *)
(* InputOutputCoins, successful or failed, the balances of all accounts    *)
(* plus the liquidity pool plus the fee-tax pool equal the stored supply,  *)
(* for every denomination.                                                 *)
(***************************************************************************)
C1_SupplyInvariant ==
    phase = "run" =>
        \A d \in Denoms :
            TotalBalance(Stores, d) + Stored(liquidityPool, d) + Stored(feeTaxPool, d)
                = Stored(supply, d)

(***************************************************************************)
(* C2: a SendCoins whose amount exceeds the sender's unlocked balance in   *)
(* at least one denomination returns InsufficientFunds and leaves every    *)
(* balance, pool and supply entry as it was before the call.               *)
(***************************************************************************)
Unlocked(st, addr, denom) == BalanceOf(st, addr, denom) - AmountOf(LockedCoins(addr), denom)

ExceedsUnlocked ==
    /\ last.op = "SendCoins"
    /\ CoinsIsValid(last.amt)
    /\ \E i \in 1..Len(last.amt) :
          last.amt[i].Amount > Unlocked(last.pre, last.from, last.amt[i].Denom)

C2_InsufficientFundsLeavesStores ==
    ExceedsUnlocked => (last.err = ErrInsufficientFunds /\ StoresUnchanged)

(***************************************************************************)
(* C3: in a taxed transfer the burn, the liquidity and the fee-tax portion *)
(* are each the truncated product of the full amount and their own         *)
(* percentage: the supply falls by the burn portion and the recipient is   *)
(* credited the amount less the three portions.                            *)
(***************************************************************************)
C3_IndependentPercentages ==
    \A i \in TaxedCoins :
        LET coin == last.amt[i]
        IN /\ Stored(last.pre.supply, coin.Denom) - Stored(supply, coin.Denom)
                = SpecBurn(last.from, last.to, coin)
           /\ Credited(coin.Denom)
                = coin.Amount - SpecBurn(last.from, last.to, coin)
                              - SpecLiquidity(last.from, last.to, coin)
                              - SpecFeeTax(last.from, last.to, coin)

(***************************************************************************)
(* C4: in a completed taxed transfer nothing leaks: what was burnt (the    *)
(* fall of the supply), what the liquidity pool and the fee-tax pool       *)
(* gained and what the recipient was credited add up to the requested      *)
(* amount.                                                                 *)
(***************************************************************************)
C4_SplitAddsUp ==
    \A i \in TaxedCoins :
        LET d == last.amt[i].Denom
        IN (Stored(last.pre.supply, d) - Stored(supply, d))
           + (Stored(liquidityPool, d) - Stored(last.pre.liquidityPool, d))
           + (Stored(feeTaxPool, d) - Stored(last.pre.feeTaxPool, d))
           + Credited(d)
           = last.amt[i].Amount

RulesOffWhitelist(from, to, denom) ==
    {j \in 1..Len(params.SupportDeflationary) :
        LET m == params.SupportDeflationary[j]
        IN /\ m.Denom = denom
           /\ m.Enabled
           /\ from \notin {m.WhitelistedFrom[k] : k \in 1..Len(m.WhitelistedFrom)}
           /\ to \notin {m.WhitelistedTo[k] : k \in 1..Len(m.WhitelistedTo)}}

HasRule(denom) ==
    \E j \in 1..Len(params.SupportDeflationary) : params.SupportDeflationary[j].Denom = denom

C6_TaxedOffWhitelist ==
    SendSucceeded =>
        \A i \in 1..Len(last.amt) :
            LET coin == last.amt[i]
                js == RulesOffWhitelist(last.from, last.to, coin.Denom)
            IN /\ js # {} =>
                    LET m == params.SupportDeflationary[CHOOSE j \in js : TRUE]
                    IN /\ Debited(coin.Denom) = coin.Amount
                       /\ Credited(coin.Denom)
                            = coin.Amount - Percent(coin.Amount, m.BurnPercent)
                                          - Percent(coin.Amount, m.LiquidityPercent)
                                          - Percent(coin.Amount, m.FeeTaxPercent)
               /\ ~HasRule(coin.Denom) => Credited(coin.Denom) = coin.Amount

(***************************************************************************)
(* C7: after a successful taxed SendCoins the bank module account holds    *)
(* exactly the liquidity and the fee-tax portion more than before: the     *)
(* burn portion does not stay in it.                                       *)
(***************************************************************************)
C7_ModuleKeepsLiquidityAndFeeTax ==
    \A i \in TaxedCoins :
        LET coin == last.amt[i]
        IN Gain(ModuleName, coin.Denom)
              = SpecLiquidity(last.from, last.to, coin) + SpecFeeTax(last.from, last.to, coin)

(***************************************************************************)
(* C8: after a successful taxed transfer the stored liquidity pool of the  *)
(* denomination has grown by the liquidity amount and the stored fee-tax   *)
(* pool by the fee-tax amount.                                             *)
(***************************************************************************)
C8_PoolsGrow ==
    \A i \in TaxedCoins :
        LET coin == last.amt[i]
        IN /\ Stored(liquidityPool, coin.Denom)
                = Stored(last.pre.liquidityPool, coin.Denom)
                  + SpecLiquidity(last.from, last.to, coin)
           /\ Stored(feeTaxPool, coin.Denom)
                = Stored(last.pre.feeTaxPool, coin.Denom)
                  + SpecFeeTax(last.from, last.to, coin)

(***************************************************************************)
(* C9: SendCoins and InputOutputCoins change the supply of a denomination  *)
(* only by taking the burn portion trunc(amount x burnPercent) of an       *)
(* applicable rule off it: nothing with burnPercent = 0, nothing for an    *)
(* untaxed transfer.                                                       *)
(***************************************************************************)
\* the sender and the recipient of a transfer with one source and one destination
OneToOne ==
    \/ last.op = "SendCoins"
    \/ last.op = "InputOutputCoins" /\ Len(last.inputs) = 1 /\ Len(last.outputs) = 1

Sender == IF last.op = "SendCoins" THEN last.from ELSE last.inputs[1].Address
Recipient == IF last.op = "SendCoins" THEN last.to ELSE last.outputs[1].Address
Requested == IF last.op = "SendCoins" THEN last.amt ELSE last.outputs[1].Coins

C9_SupplyFallsByBurnOnly ==
    (OneToOne /\ last.err = Nil) =>
        \A d \in Denoms :
            Stored(supply, d)
                = Stored(last.pre.supply, d)
                  - SpecBurn(Sender, Recipient, NewCoin(d, AmountOf(Requested, d)))

(***************************************************************************)
(* C10 as claimed: SendCoins checks first that every denomination of the   *)
(* amount is send-enabled; if one is not, it fails with SendDisabled and   *)
(* no balance, pool or supply changes.                                     *)
(***************************************************************************)
\* the override of the denomination if there is one, else the default
Overrides(p, denom) == {i \in 1..Len(p.SendEnabled) : p.SendEnabled[i].Denom = denom}

DenomEnabled(p, denom) ==
    IF Overrides(p, denom) # {}
    THEN \A i \in Overrides(p, denom) : p.SendEnabled[i].Enabled
    ELSE p.DefaultSendEnabled

Disabled(coins) == {i \in 1..Len(coins) : ~DenomEnabled(params, coins[i].Denom)}

C10_SendCoinsChecksSendEnabled ==
    (last.op = "SendCoins" /\ CoinsIsValid(last.amt) /\ Disabled(last.amt) # {}) =>
        (last.err = ErrSendDisabled /\ StoresUnchanged)

(***************************************************************************)
(* C10 as amended: the send-enabled check is IsSendEnabledCoins, not a     *)
(* step of SendCoins.  IsSendEnabledCoins fails with SendDisabled naming   *)
(* the first disabled denomination of its argument (the denomination's     *)
(* override, else the default) and succeeds when there is none, changing   *)
(* no balance, pool or supply either way; SendCoins never returns          *)
(* SendDisabled.                                                           *)
(***************************************************************************)
C10_SendEnabledCheckIsSeparate ==
    /\ last.op = "IsSendEnabledCoins" =>
          /\ StoresUnchanged
          /\ Disabled(last.amt) = {} => last.err = Nil
          /\ Disabled(last.amt) # {} =>
                /\ last.err = ErrSendDisabled
                /\ \E i \in Disabled(last.amt) :
                      /\ \A k \in Disabled(last.amt) : i <= k
                      /\ last.errDenom = last.amt[i].Denom
    /\ last.op = "SendCoins" => last.err # ErrSendDisabled

\* the default disables bar, the override enables foo: <<foo, bar>> names bar
C10_Witness ==
    /\ last.op = "IsSendEnabledCoins"
    /\ last.amt = <<Foo(1), Bar(1)>>
    /\ ~params.DefaultSendEnabled
    /\ Overrides(params, fooDenom) # {}
    /\ last.err = ErrSendDisabled
    /\ last.errDenom = barDenom

(***************************************************************************)
(* C11: under a rule set that parameter validation accepted, the net       *)
(* amount of a transferred coin is never negative: SendCoins and           *)
(* InputOutputCoins never reach the panic of NewCoin on a negative net.    *)
(***************************************************************************)
C11_NetNeverNegative ==
    last.op \in {"SendCoins", "InputOutputCoins"} => last.err # PanicNegativeCoin

(***************************************************************************)
(* C12: parameter validation rejects every deflationary rule whose burn,   *)
(* liquidity and fee-tax percentages sum above 100%: a rule set that       *)
(* SetParams took holds no such rule.                                      *)
(***************************************************************************)
PercentSum(m) == m.BurnPercent + m.LiquidityPercent + m.FeeTaxPercent

C12_ValidationRejectsOver100 ==
    (last.op = "InitGenesis" /\ last.err # PanicInvalidParams) =>
        \A j \in 1..Len(last.gen.Params.SupportDeflationary) :
            PercentSum(last.gen.Params.SupportDeflationary[j]) <= Precision
(***************************************************************************)
(* C13: when SendCoins returns an error after the debit of the sender      *)
(* succeeded (the error comes from the split or from the credit of the     *)
(* recipient), the balances of the sender and of the module account, the   *)
(* two pools and the supply are what they were before the call.            *)
(***************************************************************************)
\* the amount is valid and the sender's unlocked balance covers every coin
DebitCovered ==
    /\ last.op = "SendCoins"
    /\ CoinsIsValid(last.amt)
    /\ \A i \in 1..Len(last.amt) :
          last.amt[i].Amount <= Unlocked(last.pre, last.from, last.amt[i].Denom)

C13_LateErrorLeavesStores ==
    (DebitCovered /\ last.err \notin {Nil} \cup Panics) =>
        /\ \A d \in Denoms : /\ Gain(last.from, d) = 0
                             /\ Gain(ModuleName, d) = 0
        /\ liquidityPool = last.pre.liquidityPool
        /\ feeTaxPool = last.pre.feeTaxPool
        /\ supply = last.pre.supply
(***************************************************************************)
(* C14: the balance store never holds an entry with amount zero: a debit   *)
(* or credit that brings a balance to exactly zero removes the key, and a  *)
(* zero balance of the genesis is not written.                             *)
(***************************************************************************)
C14_NoZeroBalanceStored ==
    \A k \in DOMAIN balances : balances[k] # 0

\* a send took the sender's whole balance of a denomination and its key is gone
C14_Witness ==
    /\ SendSucceeded
    /\ last.from # last.to
    /\ \E d \in Denoms :
          /\ BalanceOf(last.pre, last.from, d) > 0
          /\ BalanceOf(last.pre, last.from, d) = AmountOf(last.amt, d)
          /\ <<last.from, d>> \notin DOMAIN balances
(***************************************************************************)
(* C15: the supply store, the liquidity-pool store and the fee-tax-pool    *)
(* store never hold an entry with amount zero: setting a denomination to   *)
(* zero deletes its key, and an absent key reads as amount 0.              *)
(***************************************************************************)
C15_NoZeroSupplyOrPoolStored ==
    /\ \A d \in DOMAIN supply : supply[d] # 0
    /\ \A d \in DOMAIN liquidityPool : liquidityPool[d] # 0
    /\ \A d \in DOMAIN feeTaxPool : feeTaxPool[d] # 0
    /\ \A d \in Denoms \ DOMAIN supply : getSupply(Ctx, d).Amount = 0
    /\ \A d \in Denoms \ DOMAIN liquidityPool : getLiquidityPool(Ctx, d).Amount = 0
    /\ \A d \in Denoms \ DOMAIN feeTaxPool : getFeeTaxPool(Ctx, d).Amount = 0

\* a split wrote the empty liquidity pool of a denomination back as zero,
\* and the key is absent
C15_Witness ==
    /\ SendSucceeded
    /\ \E d \in last.applied :
          /\ Gain(ModuleName, d) > 0
          /\ d \notin DOMAIN last.pre.liquidityPool
          /\ d \notin DOMAIN liquidityPool
(***************************************************************************)
(* C16: InputOutputCoins returns an error for every call whose summed      *)
(* input coins differ from its summed output coins, and then no balance,   *)
(* pool, supply or account entry has been modified.                        *)
(***************************************************************************)
\* the amount of a denomination summed over inputs (or outputs)
RECURSIVE IOTotal(_, _, _)
IOTotal(ios, denom, i) ==
    IF i > Len(ios) THEN 0 ELSE AmountOf(ios[i].Coins, denom) + IOTotal(ios, denom, i + 1)

IOMismatch ==
    /\ last.op = "InputOutputCoins"
    /\ \E d \in Denoms : IOTotal(last.inputs, d, 1) # IOTotal(last.outputs, d, 1)

C16_MismatchRejectedUntouched ==
    IOMismatch => (last.err \notin {Nil} \cup Panics /\ StoresUnchanged)

C16_Witness ==
    /\ IOMismatch
    /\ last.err = ErrInputOutputMismatch
    /\ StoresUnchanged
    /\ \A i \in 1..Len(last.inputs) :
          \A j \in 1..Len(last.inputs[i].Coins) :
              last.inputs[i].Coins[j].Amount
                  <= Unlocked(last.pre, last.inputs[i].Address, last.inputs[i].Coins[j].Denom)
(***************************************************************************)
(* C17: when InputOutputCoins returns an error met on input or output      *)
(* number k, the items after k are not processed and the debits and        *)
(* credits of the items before k stay in the balance store.  The inputs    *)
(* and outputs gone through are counted by their events: one "message"     *)
(* per input, one "transfer" per output.                                   *)
(***************************************************************************)
EventCount(type) ==
    Cardinality({i \in 1..Len(last.events) : last.events[i].Type = type})

InputsProcessed == EventCount("message")
OutputsProcessed == EventCount("transfer")

IOFailed == last.op = "InputOutputCoins" /\ last.err \notin {Nil} \cup Panics

\* the coins of a denomination that the first n items name for an address
RECURSIVE IOAmountFor(_, _, _, _, _)
IOAmountFor(ios, n, addr, denom, i) ==
    IF i > n THEN 0
    ELSE (IF ios[i].Address = addr THEN AmountOf(ios[i].Coins, denom) ELSE 0)
         + IOAmountFor(ios, n, addr, denom, i + 1)

\* the address of the input that failed (it may be debited in part, C2)
FailedInputAddr ==
    IF InputsProcessed < Len(last.inputs)
    THEN {last.inputs[InputsProcessed + 1].Address} ELSE {}

C17_FailureKeepsEarlierItems ==
    IOFailed =>
        /\ InputsProcessed < Len(last.inputs) => OutputsProcessed = 0
        /\ OutputsProcessed < Len(last.outputs)
        /\ \A a \in Users \ FailedInputAddr : \A d \in Denoms \ last.applied :
              Gain(a, d) = IOAmountFor(last.outputs, OutputsProcessed, a, d, 1)
                           - IOAmountFor(last.inputs, InputsProcessed, a, d, 1)

\* the second output failed after the first was credited
C17_Witness ==
    /\ IOFailed
    /\ InputsProcessed = Len(last.inputs)
    /\ OutputsProcessed = 1
    /\ Len(last.outputs) = 2
    /\ \E d \in Denoms : Gain(last.outputs[1].Address, d) > 0
    /\ \E d \in Denoms : Gain(last.inputs[1].Address, d) < 0
(***************************************************************************)
(* C18: the pool distribution entry point returns the unauthorized error   *)
(* whenever the liquidity recipient or the fee-tax recipient is on the     *)
(* blocked-address list (both being addresses), and then neither pool and  *)
(* no balance is changed; when the other recipient is not an address the   *)
(* call fails all the same and changes nothing.                            *)
(***************************************************************************)
ProposalHandled == last.op = "HandleDeflationaryPoolSpendProposal"

IsAddress(a) == a \in Addrs \cup {"mint"}

RecipientBlocked ==
    /\ ProposalHandled
    /\ \/ last.proposal.LiquidityRecipient \in blockedAddrs
       \/ last.proposal.FeeTaxRecipient \in blockedAddrs

\* each pool holds what the proposal asks of it
PoolsCoverProposal ==
    /\ \A i \in 1..Len(last.proposal.LiquidityAmount) :
          last.proposal.LiquidityAmount[i].Amount
              <= Stored(last.pre.liquidityPool, last.proposal.LiquidityAmount[i].Denom)
    /\ \A i \in 1..Len(last.proposal.FeeTaxAmount) :
          last.proposal.FeeTaxAmount[i].Amount
              <= Stored(last.pre.feeTaxPool, last.proposal.FeeTaxAmount[i].Denom)

ProposalAdmitted ==
    /\ ProposalHandled
    /\ last.proposal.LiquidityRecipient \in Users
    /\ last.proposal.FeeTaxRecipient \in Users
    /\ CoinsIsValid(last.proposal.LiquidityAmount)
    /\ CoinsIsValid(last.proposal.FeeTaxAmount)

C19_DistributionAllOrNothing ==
    (ProposalAdmitted /\ ~PoolsCoverProposal) =>
        (last.err = ErrInsufficientFunds /\ StoresUnchanged)

\* the liquidity pool alone could have paid its leg, the fee-tax pool cannot
C19_Witness ==
    /\ ProposalAdmitted
    /\ ~PoolsCoverProposal
    /\ \A i \in 1..Len(last.proposal.LiquidityAmount) :
          last.proposal.LiquidityAmount[i].Amount
              <= Stored(last.pre.liquidityPool, last.proposal.LiquidityAmount[i].Denom)
    /\ last.err = ErrInsufficientFunds
    /\ StoresUnchanged
(***************************************************************************)
(* C20: a burn attempted through a module account that does not exist or   *)
(* lacks the burner permission aborts by panic, never by a returned error, *)
(* and at the panic the burn has changed neither the module account's      *)
(* balance (it holds what the split credited to it) nor the supply.        *)
(***************************************************************************)
\* what the "coin_received" events of the last operation credited to the
\* module account
RECURSIVE ModuleCreditFrom(_, _)
ModuleCreditFrom(denom, i) ==
    IF i > Len(last.events) THEN 0
    ELSE (IF last.events[i].Type = "coin_received" /\ last.events[i].Recipient = ModuleName
          THEN AmountOf(last.events[i].Amount, denom) ELSE 0)
         + ModuleCreditFrom(denom, i + 1)

ModuleCredit(denom) == ModuleCreditFrom(denom, 1)

Transferred == last.op \in {"SendCoins", "InputOutputCoins"}

GenesisLoaded == last.op = "InitGenesis" /\ last.err = Nil

\* balances plus both pools of the genesis, for one denomination
GenesisHoldings(d) ==
    IOTotal(last.gen.Balances, d, 1) + AmountOf(last.gen.LiquidityPool, d)
        + AmountOf(last.gen.FeeTaxPool, d)

C21_GenesisSupplyIsHoldings ==
    GenesisLoaded =>
        \A d \in Denoms :
            /\ last.gen.Supply # << >> => AmountOf(last.gen.Supply, d) = GenesisHoldings(d)
            /\ Stored(supply, d) = GenesisHoldings(d)

(***************************************************************************)
(* C22: the transfer event of a successful SendCoins carries the sender,   *)
(* the recipient and the amount the caller asked for, also when a rule     *)
(* reduced what was credited, and the caller's amount is what it was       *)
(* before the call.                                                        *)
(***************************************************************************)
C22_TransferEventCarriesRequest ==
    SendSucceeded =>
        /\ \E i \in 1..Len(last.events) :
              last.events[i] = Event("transfer", last.from, last.to, last.amt)
        /\ last.amtAfter = last.amt
(***************************************************************************)
(* C23: after a successful SendCoins or InputOutputCoins every recipient   *)
(* has an account: the account of a recipient that had none is created     *)
(* (once), and no account that existed is written.                         *)
(***************************************************************************)
Recipients ==
    IF last.op = "SendCoins" THEN {last.to}
    ELSE {last.outputs[i].Address : i \in 1..Len(last.outputs)}

\* how often the last operation wrote the account of an address
AccountWrites(a) ==
    Cardinality({i \in 1..Len(last.writes) :
                    last.writes[i].Store = "accounts" /\ last.writes[i].Key = <<a>>})

C23_RecipientsHaveAccounts ==
    (Transferred /\ last.err = Nil) =>
        /\ Recipients \subseteq accounts
        /\ accounts = last.pre.accounts \cup Recipients
        /\ \A a \in Addrs :
              AccountWrites(a) = IF a \in Recipients \ last.pre.accounts THEN 1 ELSE 0

\* a transfer to an address without an account created the account
C23_Witness ==
    /\ Transferred
    /\ last.err = Nil
    /\ \E a \in Recipients : a \notin last.pre.accounts /\ a \in accounts
                                /\ AccountWrites(a) = 1
(***************************************************************************)
(* C24: a denomination is send-enabled exactly when it has an override     *)
(* that is true, or has no override and the default is true;               *)
(* IsSendEnabledCoins returns nil iff every coin's denomination is         *)
(* send-enabled, and otherwise the SendDisabled error of the first         *)
(* disabled denomination in the order of its arguments.                    *)
(***************************************************************************)
HasOverride(d, flag) ==
    \E i \in 1..Len(params.SendEnabled) :
        params.SendEnabled[i].Denom = d /\ params.SendEnabled[i].Enabled = flag

SendEnabledBySpec(d) ==
    \/ HasOverride(d, TRUE)
    \/ (~HasOverride(d, TRUE) /\ ~HasOverride(d, FALSE) /\ params.DefaultSendEnabled)

SendEnabledAsked == last.op = "IsSendEnabledCoins"

C24_SendEnabledByOverrideOrDefault ==
    SendEnabledAsked =>
        /\ \A d \in Denoms : SendEnabledDenom(params, d) <=> SendEnabledBySpec(d)
        /\ last.err = Nil <=>
              \A i \in 1..Len(last.amt) : SendEnabledBySpec(last.amt[i].Denom)
        /\ last.err # Nil =>
              /\ last.err = ErrSendDisabled
              /\ \E i \in 1..Len(last.amt) :
                    /\ last.errDenom = last.amt[i].Denom
                    /\ ~SendEnabledBySpec(last.amt[i].Denom)
                    /\ \A k \in 1..(i - 1) : SendEnabledBySpec(last.amt[k].Denom)

\* both denominations are disabled and the error names the first argument
C24_Witness ==
    /\ SendEnabledAsked
    /\ Len(last.amt) = 2
    /\ \A i \in 1..2 : ~SendEnabledBySpec(last.amt[i].Denom)
    /\ last.err = ErrSendDisabled
    /\ last.errDenom = last.amt[1].Denom
(***************************************************************************)
(* C25: the writes of a successful taxed SendCoins come in this order: the *)
(* debit of the sender for all coins, the pool writes, the credit of the   *)
(* module account, the burn (the debit of the module account, then the     *)
(* supply), the credit of the recipient, the creation of the recipient's   *)
(* account, the transfer event.                                            *)
(***************************************************************************)
\* the step a write of the log belongs to (0: one of the other events)
Step(i) ==
    LET w == last.writes[i]
    IN IF w.Store = "balances" /\ w.Key[1] = last.from THEN 1
       ELSE IF w.Store \in {"liquidityPool", "feeTaxPool"} THEN 2
       ELSE IF w.Store = "balances" /\ w.Key[1] = ModuleName
       THEN (IF \E k \in 1..(i - 1) : /\ last.writes[k].Store = "balances"
                                       /\ last.writes[k].Key = w.Key
             THEN 4 ELSE 3)
       ELSE IF w.Store = "supply" THEN 5
       ELSE IF w.Store = "balances" /\ w.Key[1] = last.to THEN 6
       ELSE IF w.Store = "accounts" THEN 7
       ELSE IF w.Store = "events" /\ w.Key = <<"transfer">> THEN 8
       ELSE 0

TaxedSendSucceeded == SendSucceeded /\ last.applied # {} /\ last.from # last.to

StepsTaken == {Step(i) : i \in 1..Len(last.writes)} \ {0}

C25_StepsInOrder ==
    TaxedSendSucceeded =>
        /\ \A i, j \in 1..Len(last.writes) :
              (i < j /\ Step(i) # 0 /\ Step(j) # 0) => Step(i) <= Step(j)
        /\ {1, 6, 8} \subseteq StepsTaken

\* a taxed send that took every one of the steps
C25_Witness ==
    /\ TaxedSendSucceeded
    /\ StepsTaken = 1..8
(***************************************************************************)
(* C26: burnCoins debits the module account before it decrements the       *)
(* supply: when the module account's unlocked balance is below the burn    *)
(* amount in a denomination, burnCoins returns InsufficientFunds and the   *)
(* supply of every denomination is unchanged.  Checked under BurnSpec.     *)
(***************************************************************************)
BurnCalled == last.op = "burnCoins" /\ macc = "burner" /\ CoinsIsValid(last.amt)

BurnExceedsHolding ==
    /\ BurnCalled
    /\ \E i \in 1..Len(last.amt) :
          last.amt[i].Amount > Unlocked(last.pre, ModuleName, last.amt[i].Denom)

C26_BurnDebitsBeforeSupply ==
    /\ BurnExceedsHolding => (last.err = ErrInsufficientFunds /\ supply = last.pre.supply)
    /\ (BurnCalled /\ last.err = Nil) =>
          /\ \A i \in 1..Len(last.amt) :
                /\ Gain(ModuleName, last.amt[i].Denom) = 0 - last.amt[i].Amount
                /\ Stored(supply, last.amt[i].Denom)
                      = Stored(last.pre.supply, last.amt[i].Denom) - last.amt[i].Amount
          /\ \A i, j \in 1..Len(last.writes) :
                (last.writes[i].Store = "balances" /\ last.writes[j].Store = "supply")
                    => i < j

\* the module account covers the first coin of the burn and not the second
C26_Witness ==
    /\ BurnExceedsHolding
    /\ Len(last.amt) = 2
    /\ last.amt[1].Amount <= Unlocked(last.pre, ModuleName, last.amt[1].Denom)
    /\ last.err = ErrInsufficientFunds
    /\ supply = last.pre.supply
(***************************************************************************)
(* C27: validateSupportDeflationaryParams accepts a rule list only if no   *)
(* denomination occurs twice and every rule has a valid denomination,      *)
(* whitelists of well-formed addresses only, and a burn, a liquidity and   *)
(* a fee-tax percentage that are each non-nil and within [0, 1]; SetParams *)
(* takes no rule list with a defect.                                       *)
(***************************************************************************)
PercentInRange(v) == v # NilDec /\ 0 <= v /\ v <= Precision

WellFormedRule(m) ==
    /\ m.Denom \in Denoms
    /\ \A i \in 1..Len(m.WhitelistedFrom) : IsAddress(m.WhitelistedFrom[i])
    /\ \A i \in 1..Len(m.WhitelistedTo) : IsAddress(m.WhitelistedTo[i])
    /\ PercentInRange(m.BurnPercent)
    /\ PercentInRange(m.LiquidityPercent)
    /\ PercentInRange(m.FeeTaxPercent)

WellFormedRules(rules) ==
    /\ \A i, j \in 1..Len(rules) : i # j => rules[i].Denom # rules[j].Denom
    /\ \A i \in 1..Len(rules) : WellFormedRule(rules[i])

C27_OnlyWellFormedRulesAccepted ==
    (last.op = "InitGenesis" /\ last.err # PanicInvalidParams) =>
        WellFormedRules(last.gen.Params.SupportDeflationary)

\* a rule with a percentage above 1 was refused
C27_Witness ==
    /\ last.op = "InitGenesis"
    /\ last.err = PanicInvalidParams
    /\ \E i \in 1..Len(last.gen.Params.SupportDeflationary) :
          last.gen.Params.SupportDeflationary[i].BurnPercent > Precision
    /\ StoresUnchanged
(***************************************************************************)
(* C28: for p' = p.SetSendEnabledParam(d, v): p'.SendEnabledDenom(d) = v;  *)
(* p'.SendEnabledDenom(e) = p.SendEnabledDenom(e) for every other e; p'    *)
(* holds exactly one entry for d; the default flag and the deflationary    *)
(* rules are those of p; and the same call applied to p' gives p'.         *)
(* Checked under ParamsSpec.                                               *)
(***************************************************************************)
ParamSet == last.op = "SetSendEnabledParam"

C28_SetSendEnabledParam ==
    ParamSet =>
        /\ SendEnabledDenom(params, last.denom) = last.flag
        /\ \A e \in Denoms \ {last.denom} :
              SendEnabledDenom(params, e) = SendEnabledDenom(last.prm, e)
        /\ Cardinality({i \in 1..Len(params.SendEnabled) :
                            params.SendEnabled[i].Denom = last.denom}) = 1
        /\ params.DefaultSendEnabled = last.prm.DefaultSendEnabled
        /\ params.SupportDeflationary = last.prm.SupportDeflationary
        /\ SetSendEnabledParam(params, last.denom, last.flag) = params

\* the denomination had an entry with the other flag, ahead of another
\* denomination's entry
C28_Witness ==
    /\ ParamSet
    /\ Len(last.prm.SendEnabled) = 2
    /\ last.prm.SendEnabled[1].Denom = last.denom
    /\ last.prm.SendEnabled[1].Enabled # last.flag
    /\ last.prm.SendEnabled[2].Denom # last.denom
    /\ SendEnabledDenom(params, last.denom) = last.flag
(***************************************************************************)
(* C29: the EGF activation height is per-instance state: what              *)
(* GetEGFProposalSupportBlock returns to an application instance is the    *)
(* height that instance set last (0 when it set none), whatever another    *)
(* instance of the same process set.  Checked under GovSpec.               *)
(***************************************************************************)
C29_EGFHeightPerInstance ==
    last.op = "GetEGFProposalSupportBlock" => last.height = egfSetBy[last.from]
(***************************************************************************)
(* C30: after InitGenesis, and after every successful SendCoins or         *)
(* InputOutputCoins that starts where it holds, the balance of the bank    *)
(* module account equals the stored liquidity pool plus the stored         *)
(* fee-tax pool, for every denomination.                                   *)
(***************************************************************************)
ModuleHoldsPools(st) ==
    \A d \in Denoms :
        BalanceOf(st, ModuleName, d) = Stored(st.liquidityPool, d) + Stored(st.feeTaxPool, d)

C30_ModuleBalanceIsPools ==
    /\ GenesisLoaded => ModuleHoldsPools(Stores)
    /\ (Transferred /\ last.err = Nil /\ ModuleHoldsPools(last.pre)) =>
           ModuleHoldsPools(Stores)
(***************************************************************************)
(* C31: an InputOutputCoins with one input (A, c) and one output (B, c)    *)
(* leaves the balances, the pools and the supply as SendCoins(A, B, c)     *)
(* leaves them from the same stores and parameters, for every rule set,    *)
(* the rules that whitelist A as a sender included.                        *)
(***************************************************************************)
CtxOf(st) == [balances |-> st.balances, supply |-> st.supply,
              liquidityPool |-> st.liquidityPool, feeTaxPool |-> st.feeTaxPool,
              accounts |-> st.accounts, events |-> << >>, writes |-> << >>]

Ledger(st) == [balances |-> st.balances, supply |-> st.supply,
               liquidityPool |-> st.liquidityPool, feeTaxPool |-> st.feeTaxPool]

SameCoinsOneToOne ==
    /\ last.op = "InputOutputCoins"
    /\ Len(last.inputs) = 1
    /\ Len(last.outputs) = 1
    /\ last.inputs[1].Coins = last.outputs[1].Coins

C31_OneToOneIsSendCoins ==
    SameCoinsOneToOne =>
        Ledger(Stores) = Ledger(SendCoinsResult(CtxOf(last.pre), last.inputs[1].Address,
                                                last.outputs[1].Address,
                                                last.inputs[1].Coins).ctx)
(***************************************************************************)
(* C32: a SendCoins of several denominations that all have an applicable   *)
(* rule succeeds whenever the sender has the funds, also when the computed *)
(* burn, liquidity and fee-tax amounts of one denomination are all zero    *)
(* and those of another are positive; the recipient then gets the zero-tax *)
(* denomination in full and the other one net of its tax.                  *)
(***************************************************************************)
\* the amounts deflationaryCoins computes for the i-th coin of the request
Computed(i) ==
    matchRules(params.SupportDeflationary, last.from, last.to, last.amt[i], 1, NoAmounts)

TaxOf(i) == Computed(i).burnAmount + Computed(i).liquidityAmount + Computed(i).feeTarAmount

SenderHasFunds ==
    \A i \in 1..Len(last.amt) :
        BalanceOf(last.pre, last.from, last.amt[i].Denom)
            - AmountOf(LockedCoins(last.from), last.amt[i].Denom) >= last.amt[i].Amount

MixedTaxSend ==
    /\ last.op = "SendCoins"
    /\ CoinsIsValid(last.amt)
    /\ Len(last.amt) > 1
    /\ last.from # last.to
    /\ macc = "burner"
    /\ \A i \in 1..Len(last.amt) : Computed(i).isDeflationary /\ TaxOf(i) <= last.amt[i].Amount
    /\ \E i \in 1..Len(last.amt) : TaxOf(i) = 0
    /\ \E i \in 1..Len(last.amt) : TaxOf(i) > 0
    /\ SenderHasFunds

C32_MixedTaxSendSucceeds ==
    MixedTaxSend =>
        /\ last.err = Nil
        /\ \A i \in 1..Len(last.amt) :
              BalanceOf(Stores, last.to, last.amt[i].Denom)
                  = BalanceOf(last.pre, last.to, last.amt[i].Denom)
                        + last.amt[i].Amount - TaxOf(i)
(***************************************************************************)
(* C33: a SendCoins none of whose coins has an applicable rule never       *)
(* panics, and succeeds whenever the sender has the unlocked funds,        *)
(* whether the bank module account exists or not.  Checked under SendSpec. *)
(***************************************************************************)
UntaxedSend ==
    /\ last.op = "SendCoins"
    /\ \A i \in 1..Len(last.amt) : ~Computed(i).isDeflationary

ExportedAfterLoad == last.op = "ExportGenesis" /\ last.gen # NoGenesis

BalanceSet(bs) == {bs[i] : i \in 1..Len(bs)}

\* the balances without their zero coins, and without the addresses left
\* with no coin
NonZeroBalanceSet(bs) ==
    {Balance(bs[i].Address, CoinsAdd(bs[i].Coins, << >>)) :
        i \in {j \in 1..Len(bs) : ~CoinsIsZero(bs[j].Coins)}}

PoolsAndSupplyReturned ==
    /\ last.exported.LiquidityPool = last.gen.LiquidityPool
    /\ last.exported.FeeTaxPool = last.gen.FeeTaxPool
    /\ last.gen.Supply # << >> => last.exported.Supply = last.gen.Supply

C35_ValidateCoversParamSetPairs ==
    (last.op = "Validate" /\ ParamSetPairs(params) # Nil) => last.err # Nil
(***************************************************************************)
(* C36: DeflationaryPoolSpendProposal.ValidateBasic returns an error       *)
(* whenever the liquidity amount or the fee-tax amount is not a valid coin *)
(* set, or the liquidity recipient or the fee-tax recipient is the empty   *)
(* string; it returns nil only when the title and description checks and   *)
(* these four checks all pass.  Checked under ProposalSpec.                *)
(***************************************************************************)
ProposalValidated == last.op = "ValidateBasic"

Blank(text) == text \in {"", "  "}

FourChecksPass(csp) ==
    /\ CoinsIsValid(csp.LiquidityAmount)
    /\ CoinsIsValid(csp.FeeTaxAmount)
    /\ csp.LiquidityRecipient # ""
    /\ csp.FeeTaxRecipient # ""

C36_ValidateBasicChecks ==
    ProposalValidated =>
        /\ ~FourChecksPass(last.proposal) => last.err # Nil
        /\ last.err = Nil =>
              /\ ~Blank(last.proposal.Title)
              /\ ~Blank(last.proposal.Description)
              /\ FourChecksPass(last.proposal)

\* a proposal whose only defect is its empty fee-tax recipient is refused
C36_Witness ==
    /\ ProposalValidated
    /\ ~Blank(last.proposal.Title)
    /\ ~Blank(last.proposal.Description)
    /\ CoinsIsValid(last.proposal.LiquidityAmount)
    /\ CoinsIsValid(last.proposal.FeeTaxAmount)
    /\ last.proposal.LiquidityRecipient # ""
    /\ last.proposal.FeeTaxRecipient = ""
    /\ last.err = ErrEmptyProposalRecipient
====
